---- MODULE Spec2Model ----
(***************************************************************************)
(* seedrng: seeding the kernel RNG from seed files (src/seedrng.c).        *)
(*                                                                         *)
(* Each process of Procs is one invocation of main().  The seed directory, *)
(* its two seed files, the advisory lock on the directory and the kernel   *)
(* RNG are shared; everything else is local to an invocation.  Every       *)
(* system call of main() and of the functions it calls is one step, and a  *)
(* system call that can fail does so nondeterministically.                 *)
(*                                                                         *)
(* Byte strings are kept symbolically, with their true lengths: a string   *)
(* is a sequence of chunks [src, id, n], the first n bytes that source     *)
(* (src, id) delivered.                                                    *)
(***************************************************************************)
EXTENDS Integers, Sequences, FiniteSets, TLC

\* ---- bounds of the model ------------------------------------------------
\* number of invocations of the program
NumProcs == 2

Procs == 1..NumProcs

\* ---- program constants --------------------------------------------------
BLAKE2S_BLOCK_LEN == 64
BLAKE2S_HASH_LEN == 32
MAX_SEED_LEN == 512
MIN_SEED_LEN == BLAKE2S_HASH_LEN
EIO == 5
EFBIG == 27

NON_CREDITABLE_SEED == "seed.no-credit"
CREDITABLE_SEED == "seed.credit"
Names == {NON_CREDITABLE_SEED, CREDITABLE_SEED}

\* ---- inputs the environment can supply ----------------------------------
\* lengths of a seed file found in the directory before the first run:
\* empty, ordinary, longer than the read buffer
OldSeedLens == {0, 64, 600}
\* what getenv("SEEDRNG_SKIP_CREDIT") returns: NULL, or a string of characters
NoEnv == [set |-> FALSE, val |-> <<>>]
EnvStr(s) == [set |-> TRUE, val |-> s]
EnvValues == {NoEnv, EnvStr(<<"1">>)}
\* contents of /proc/sys/kernel/random/poolsize, in bits
PoolSizes == {128, 8192}
\* what was read of poolsize: nothing, or a number of bits
NoPool == [readable |-> FALSE, bits |-> 0]
\* the user ids a caller can have
Uids == {0, 1000}

\* ---- symbolic byte strings ----------------------------------------------
Chunk(src, id, n) == [src |-> src, id |-> id, n |-> n]

RECURSIVE BytesLen(_)
BytesLen(b) == IF b = <<>> THEN 0 ELSE Head(b).n + BytesLen(Tail(b))

\* the first k bytes of b
RECURSIVE Prefix(_, _)
Prefix(b, k) ==
    IF k <= 0 \/ b = <<>> THEN <<>>
    ELSE IF Head(b).n <= k
         THEN <<Head(b)>> \o Prefix(Tail(b), k - Head(b).n)
         ELSE <<Chunk(Head(b).src, Head(b).id, k)>>

\* ---- files --------------------------------------------------------------
\* id tells the files that ever exist apart: p is the file process p created,
\* OldId(name) < 0 the file called name that predates every run.
\* sent is history: the processes that sent bytes of this file to the kernel
NoFile == [exists |-> FALSE, id |-> 0, bytes |-> <<>>, sent |-> {}]
File(id, b) == [exists |-> TRUE, id |-> id, bytes |-> b, sent |-> {}]
OldId(name) == IF name = NON_CREDITABLE_SEED THEN -1 ELSE -2
OldFile(name, len) ==
    File(OldId(name), IF len = 0 THEN <<>> ELSE <<Chunk("old", OldId(name), len)>>)
OldFiles(name) == {NoFile} \cup {OldFile(name, l) : l \in OldSeedLens}

VARIABLES
    dirExists,   \* SEED_DIR exists
    dir,         \* the seed files of SEED_DIR, by name
    lock,        \* the process holding the flock on SEED_DIR, 0 if none
    kernel,      \* history: the RNDADDENTROPY requests of the running processes
    delivered,   \* history, by name: the last event on the name was a consumption
                 \* that used the bytes read (no file was created under it since)
    pc,          \* position of each process in main()
    env,         \* skip_credit: skip, NULL until getenv is called
    program_ret, \* main: program_ret
    dfd,         \* main: dfd is open
    hash,        \* main: the fields absorbed by blake2s_update, in order
    fd,          \* main: fd is open
    filename,    \* seed_from_file_if_exists: filename
    credit,      \* seed_from_file_if_exists: credit
    sf_fd,       \* seed_from_file_if_exists: the file fd refers to
    seed,        \* seed_from_file_if_exists: seed[0..seed_len)
    seed_len,    \* seed_from_file_if_exists: seed_len
    ret,         \* seed_from_file_if_exists: ret
    sf_result,   \* seed_from_file_if_exists: the value returned
    removed,     \* history of the call: "unlinked" once unlinkat succeeded,
                 \* "synced" once fsync(dfd) succeeded too, else "no"
    new_seed,    \* main: new_seed[0..new_seed_len)
    new_seed_len,
    new_seed_creditable,
    attempted,   \* history: the steps of main each process has attempted
    failed,      \* history: the steps of main that failed in each process
    gone,        \* history: the files whose content each process unlinked,
                 \* truncated or renamed over, as [name, bytes]
    poolsize,    \* determine_optimal_seed_len: what was read of poolsize
    calls,       \* read_new_seed: the calls it made and what they answered
    blake,       \* a struct blake2s_state with its bytes, and what it absorbed
    twin         \* a second run of main() on the same inputs, while the first steps

shared == <<dirExists, dir, lock, kernel, delivered>>
mainLocals == <<env, program_ret, dfd, fd, hash, new_seed, new_seed_len, new_seed_creditable>>
sfLocals == <<filename, credit, sf_fd, seed, seed_len, ret, sf_result, removed>>
history == <<attempted, failed>>
lenInput == <<gone, poolsize>>
vars == <<shared, pc, mainLocals, sfLocals, history, lenInput, blake, calls, twin>>

\* ---- helpers of the code ------------------------------------------------
DIV_ROUND_UP(n, d) == (n + d - 1) \div d

\* program_ret |= 1 << b
SetBit(x, b) == IF (x \div (2 ^ b)) % 2 = 1 THEN x ELSE x + 2 ^ b
Bit(x, b) == (x \div (2 ^ b)) % 2 = 1

\* tolower() on the letters the compared words are made of
UpperChars == <<"T", "R", "U", "E", "Y", "S">>
LowerChars == <<"t", "r", "u", "e", "y", "s">>
ToLower(c) ==
    IF \E i \in 1..Len(UpperChars) : UpperChars[i] = c
    THEN LowerChars[CHOOSE i \in 1..Len(UpperChars) : UpperChars[i] = c]
    ELSE c
\* !strcmp(a, b)
StrEq(a, b) == a = b
\* !strcasecmp(a, b)
StrCaseEq(a, b) ==
    /\ Len(a) = Len(b)
    /\ \A i \in 1..Len(a) : ToLower(a[i]) = ToLower(b[i])

\* variant of skip_credit: the words are compared with strcmp
skip_credit_CaseSensitive(e) ==
    /\ e.set
    /\ \/ StrEq(e.val, <<"1">>)
       \/ StrEq(e.val, <<"t", "r", "u", "e">>)
       \/ StrEq(e.val, <<"y", "e", "s">>)
       \/ StrEq(e.val, <<"y">>)

skip_credit(e) ==
    /\ e.set
    /\ \/ StrEq(e.val, <<"1">>)
       \/ StrCaseEq(e.val, <<"t", "r", "u", "e">>)
       \/ StrCaseEq(e.val, <<"y", "e", "s">>)
       \/ StrCaseEq(e.val, <<"y">>)

\* ---- the hash, as the sequence of what it absorbed ------------------------
\* a field is a byte string b, or the number n absorbed as sizeof(n) bytes
FBytes(b) == [k |-> "bytes", n |-> BytesLen(b), b |-> b]
FLen(n) == [k |-> "len", n |-> n, b |-> <<>>]
seedrng_prefix == <<Chunk("SeedRNG v1 Old+New Prefix", 0, 25)>>
seedrng_failure == <<Chunk("SeedRNG v1 No New Seed Failure", 0, 30)>>

blake2s_init == [in |-> <<>>, nfinal |-> 0]
blake2s_update(state, f) ==
    IF f.k = "bytes" /\ f.n = 0 THEN state
    ELSE [state EXCEPT !.in = Append(@, f)]
\* the digest of process p's hash state stands for itself: Chunk("digest", p, outlen)
blake2s_final(state) == [state EXCEPT !.nfinal = @ + 1]
Digest(p) == <<Chunk("digest", p, BLAKE2S_HASH_LEN)>>

\* ---- the hash, byte by byte ------------------------------------------------
\* A struct blake2s_state: h is the chaining value, held as the parameter it
\* was initialised with and the blocks compressed into it since, each with the
\* counter and the flags of its compression (blake2s_compress makes the new h
\* of the old h, the block, t and f and of nothing else); t and f are the
\* two words of the counter and of the flags; buf is the 64 bytes of the
\* buffer, those from buflen on being left over from earlier blocks.
\* A byte is a number: the bytes absorbed are numbered 1, 2, ... in the order
\* of the stream, 0 is the zero byte, and what memory held before is negative.
ZeroState ==
    [h |-> [param |-> 0, blocks |-> <<>>], t |-> <<0, 0>>, f |-> <<0, 0>>,
     buf |-> [i \in 1..BLAKE2S_BLOCK_LEN |-> 0], buflen |-> 0, outlen |-> 0]

\* struct blake2s_state hash; in main(): memory that was never written
Garbage(g) ==
    [h |-> [param |-> -g, blocks |-> <<>>], t |-> <<g, g>>, f |-> <<g, 0>>,
     buf |-> [i \in 1..BLAKE2S_BLOCK_LEN |-> -g], buflen |-> g, outlen |-> g]

\* variant of blake2s_init_param: without memset(state, 0, sizeof(*state))
blake2s_init_param_NoMemset(state, param) ==
    [state EXCEPT !.h = [param |-> param, blocks |-> <<>>]]

\* memset(state, 0, sizeof(*state)); h = blake2s_iv with h[0] ^= param
blake2s_init_param(state, param) ==
    [ZeroState EXCEPT !.h = [param |-> param, blocks |-> <<>>]]

\* blake2s_init(state, outlen): the parameter is 0x01010000 | outlen
blake2s_init_bytes(state, outlen) ==
    [blake2s_init_param(state, 16842752 + outlen) EXCEPT !.outlen = outlen]

\* t[0] += inc; t[1] += (t[0] < inc), the counter staying below 2^32 here
blake2s_increment_counter(state, inc) ==
    LET t0 == state.t[1] + inc
    IN  [state EXCEPT !.t = <<t0, state.t[2] + (IF t0 < inc THEN 1 ELSE 0)>>]

\* blake2s_compress(state, block, nblocks, inc): block by block the counter is
\* incremented and h takes in the 64 bytes, t and f
RECURSIVE blake2s_compress(_, _, _, _)
blake2s_compress(state, block, nblocks, inc) ==
    IF nblocks = 0 THEN state
    ELSE LET c == blake2s_increment_counter(state, inc)
             m == SubSeq(block, 1, BLAKE2S_BLOCK_LEN)
         IN  blake2s_compress(
                 [c EXCEPT !.h.blocks = Append(@, [m |-> m, t |-> c.t, f |-> c.f])],
                 SubSeq(block, BLAKE2S_BLOCK_LEN + 1, Len(block)), nblocks - 1, inc)

\* memcpy(buf + off, src, Len(src))
memcpy(buf, off, src) ==
    [i \in 1..Len(buf) |-> IF i > off /\ i <= off + Len(src) THEN src[i - off] ELSE buf[i]]

\* variant of blake2s_update_bytes: the bytes that complete the buffered block
\* are absorbed again after it
blake2s_update_bytes_NoAdvance(state, inp) ==
    LET fill == BLAKE2S_BLOCK_LEN - state.buflen
        inlen == Len(inp)
        buf1 == memcpy(state.buf, state.buflen, SubSeq(inp, 1, fill))
        s1 == IF inlen > fill
              THEN [blake2s_compress([state EXCEPT !.buf = buf1], buf1, 1,
                                     BLAKE2S_BLOCK_LEN) EXCEPT !.buflen = 0]
              ELSE state
        in1 == IF inlen > fill /\ inlen > BLAKE2S_BLOCK_LEN
               THEN SubSeq(inp, fill + 1, inlen) ELSE inp
        nblocks == DIV_ROUND_UP(Len(in1), BLAKE2S_BLOCK_LEN)
        s2 == IF Len(in1) > BLAKE2S_BLOCK_LEN
              THEN blake2s_compress(s1, in1, nblocks - 1, BLAKE2S_BLOCK_LEN)
              ELSE s1
        in2 == IF Len(in1) > BLAKE2S_BLOCK_LEN
               THEN SubSeq(in1, BLAKE2S_BLOCK_LEN * (nblocks - 1) + 1, Len(in1))
               ELSE in1
    IN  IF inlen = 0 THEN state
        ELSE [s2 EXCEPT !.buf = memcpy(@, s2.buflen, in2), !.buflen = @ + Len(in2)]

\* variant of blake2s_update_bytes: input that fills the buffer exactly is
\* compressed at once (inlen >= fill)
blake2s_update_bytes_Eager(state, inp) ==
    LET fill == BLAKE2S_BLOCK_LEN - state.buflen
        inlen == Len(inp)
        buf1 == memcpy(state.buf, state.buflen, SubSeq(inp, 1, fill))
        s1 == IF inlen >= fill
              THEN [blake2s_compress([state EXCEPT !.buf = buf1], buf1, 1,
                                     BLAKE2S_BLOCK_LEN) EXCEPT !.buflen = 0]
              ELSE state
        in1 == IF inlen >= fill THEN SubSeq(inp, fill + 1, inlen) ELSE inp
        nblocks == DIV_ROUND_UP(Len(in1), BLAKE2S_BLOCK_LEN)
        s2 == IF Len(in1) > BLAKE2S_BLOCK_LEN
              THEN blake2s_compress(s1, in1, nblocks - 1, BLAKE2S_BLOCK_LEN)
              ELSE s1
        in2 == IF Len(in1) > BLAKE2S_BLOCK_LEN
               THEN SubSeq(in1, BLAKE2S_BLOCK_LEN * (nblocks - 1) + 1, Len(in1))
               ELSE in1
    IN  IF inlen = 0 THEN state
        ELSE [s2 EXCEPT !.buf = memcpy(@, s2.buflen, in2), !.buflen = @ + Len(in2)]

\* blake2s_update(state, inp, inlen) on the bytes inp
blake2s_update_bytes(state, inp) ==
    LET fill == BLAKE2S_BLOCK_LEN - state.buflen
        inlen == Len(inp)
        buf1 == memcpy(state.buf, state.buflen, SubSeq(inp, 1, fill))
        s1 == IF inlen > fill
              THEN [blake2s_compress([state EXCEPT !.buf = buf1], buf1, 1,
                                     BLAKE2S_BLOCK_LEN) EXCEPT !.buflen = 0]
              ELSE state
        in1 == IF inlen > fill THEN SubSeq(inp, fill + 1, inlen) ELSE inp
        nblocks == DIV_ROUND_UP(Len(in1), BLAKE2S_BLOCK_LEN)
        s2 == IF Len(in1) > BLAKE2S_BLOCK_LEN
              THEN blake2s_compress(s1, in1, nblocks - 1, BLAKE2S_BLOCK_LEN)
              ELSE s1
        in2 == IF Len(in1) > BLAKE2S_BLOCK_LEN
               THEN SubSeq(in1, BLAKE2S_BLOCK_LEN * (nblocks - 1) + 1, Len(in1))
               ELSE in1
    IN  IF inlen = 0 THEN state
        ELSE [s2 EXCEPT !.buf = memcpy(@, s2.buflen, in2), !.buflen = @ + Len(in2)]

\* f[0] = -1
blake2s_set_lastblock(state) == [state EXCEPT !.f = <<-1, @[2]>>]

\* blake2s_final(state, out): the state it leaves and the outlen bytes of out,
\* which are those of h
blake2s_final_bytes(state) ==
    LET s1 == blake2s_set_lastblock(state)
        buf1 == [i \in 1..BLAKE2S_BLOCK_LEN |-> IF i > s1.buflen THEN 0 ELSE s1.buf[i]]
        s2 == blake2s_compress([s1 EXCEPT !.buf = buf1], buf1, 1, s1.buflen)
    IN  [state |-> s2, out |-> [h |-> s2.h, outlen |-> s2.outlen]]

\* ---- the hash counter, in uint32_t arithmetic -------------------------------
\* a uint32_t is kept as its two 16-bit halves hi and lo, of value hi * 2^16 + lo
Half == 65536
U32(hi, lo) == [hi |-> hi, lo |-> lo]

\* w + inc in uint32_t, for inc below 2^16: the sum modulo 2^32
u32_add(w, inc) == U32((w.hi + (w.lo + inc) \div Half) % Half, (w.lo + inc) % Half)

\* w < inc in uint32_t, for inc below 2^16
u32_less(w, inc) == w.hi = 0 /\ w.lo < inc

\* variant of blake2s_increment_counter_u32: t[1] is left alone
blake2s_increment_counter_NoCarry(t, inc) == <<u32_add(t[1], inc), t[2]>>

\* state->t[0] += inc; state->t[1] += (state->t[0] < inc); on t alone
blake2s_increment_counter_u32(t, inc) ==
    LET t0 == u32_add(t[1], inc)
    IN  <<t0, u32_add(t[2], IF u32_less(t0, inc) THEN 1 ELSE 0)>>

\* blake2s_compress(state, block, nblocks, inc), what it does to t
RECURSIVE blake2s_compress_counter(_, _, _)
blake2s_compress_counter(t, nblocks, inc) ==
    IF nblocks = 0 THEN t
    ELSE blake2s_compress_counter(blake2s_increment_counter_u32(t, inc), nblocks - 1, inc)

\* blake2s_update(state, inp, inlen), what it does to t and buflen; blocks
\* counts the blocks compressed
blake2s_update_counter(c, inlen) ==
    LET fill == BLAKE2S_BLOCK_LEN - c.buflen
        c1 == IF inlen > fill
              THEN [t |-> blake2s_compress_counter(c.t, 1, BLAKE2S_BLOCK_LEN),
                    buflen |-> 0, blocks |-> c.blocks + 1]
              ELSE c
        len1 == IF inlen > fill THEN inlen - fill ELSE inlen
        nblocks == DIV_ROUND_UP(len1, BLAKE2S_BLOCK_LEN)
        c2 == IF len1 > BLAKE2S_BLOCK_LEN
              THEN [c1 EXCEPT !.t = blake2s_compress_counter(@, nblocks - 1, BLAKE2S_BLOCK_LEN),
                              !.blocks = @ + nblocks - 1]
              ELSE c1
        len2 == IF len1 > BLAKE2S_BLOCK_LEN
                THEN len1 - BLAKE2S_BLOCK_LEN * (nblocks - 1) ELSE len1
    IN  IF inlen = 0 THEN c ELSE [c2 EXCEPT !.buflen = @ + len2]

\* blake2s_final(state, out), what it does to t
blake2s_final_counter(c) ==
    [c EXCEPT !.t = blake2s_compress_counter(@, 1, c.buflen)]

\* the counter read as one number of 64 bits, t[1] * 2^32 + t[0], in four
\* halves from the lowest
Value64(t) == <<t[1].lo, t[1].hi, t[2].lo, t[2].hi>>

\* the number n of 64 bits plus c, modulo 2^64
RECURSIVE Plus64(_, _)
Plus64(n, c) ==
    IF n = <<>> THEN <<>>
    ELSE <<(n[1] + c) % Half>> \o Plus64(Tail(n), (n[1] + c) \div Half)

\* read_new_seed has not been called
NoCalls ==
    [getrandom_nonblock |-> "none", open_random |-> "none", poll |-> "none",
     getrandom_insecure |-> "none", open_urandom |-> "none", read_urandom |-> "none"]

\* no digest yet
NoOut == [h |-> ZeroState.h, outlen |-> 0]

\* no hash is followed byte by byte
NoBlake == [phase |-> "idle"]
\* no second run
NoTwin == [turn |-> "none"]

\* ---- system calls on the seed directory ---------------------------------
\* read_full(fd, buf, count) on success: at most count bytes of the file
read_full(file, count) == Prefix(file.bytes, count)

\* variant of EntropyCount: the credit counted in bytes, not in bits
EntropyCount_Bytes(len, c) == IF c THEN len ELSE 0

\* seed_rng: the entropy_count of the request
EntropyCount(len, c) == IF c THEN len * 8 ELSE 0

Request(p, name, f, buf, len, c) ==
    [p |-> p, name |-> name, id |-> f.id, buf |-> buf, buf_size |-> len,
     entropy_count |-> EntropyCount(len, c)]

ClosedFd == [open |-> FALSE, file |-> NoFile]

\* the state before the first invocation, but for the directory
InitProcs ==
    /\ lock = 0
    /\ kernel = {}
    /\ delivered = [n \in Names |-> FALSE]
    /\ pc = [p \in Procs |-> "start"]
    /\ env = [p \in Procs |-> NoEnv]
    /\ program_ret = [p \in Procs |-> 0]
    /\ dfd = [p \in Procs |-> FALSE]
    /\ fd = [p \in Procs |-> FALSE]
    /\ hash = [p \in Procs |-> blake2s_init]
    /\ filename = [p \in Procs |-> ""]
    /\ credit = [p \in Procs |-> FALSE]
    /\ sf_fd = [p \in Procs |-> ClosedFd]
    /\ seed = [p \in Procs |-> <<>>]
    /\ seed_len = [p \in Procs |-> 0]
    /\ ret = [p \in Procs |-> 0]
    /\ sf_result = [p \in Procs |-> 0]
    /\ removed = [p \in Procs |-> "no"]
    /\ new_seed = [p \in Procs |-> <<>>]
    /\ new_seed_len = [p \in Procs |-> 0]
    /\ new_seed_creditable = [p \in Procs |-> FALSE]
    /\ attempted = [p \in Procs |-> {}]
    /\ failed = [p \in Procs |-> {}]
    /\ gone = [p \in Procs |-> {}]
    /\ poolsize = [p \in Procs |-> NoPool]
    /\ calls = [p \in Procs |-> NoCalls]

\* every directory a first invocation can find: none, or one with or without
\* each seed file, of any of the lengths OldSeedLens
InitRun ==
    /\ dirExists \in BOOLEAN
    /\ dir \in [Names -> UNION {OldFiles(n) : n \in Names}]
    /\ \A n \in Names : dir[n] \in OldFiles(n)
    /\ ~dirExists => \A n \in Names : dir[n] = NoFile
    /\ InitProcs
    /\ blake = NoBlake

InitAny ==
    /\ InitRun
    /\ twin = NoTwin

\* the first boot, with no directory, or a directory with a seed.no-credit
\* longer than the read buffer and an ordinary seed.credit; later invocations
\* find what earlier ones left
Init ==
    /\ InitAny
    /\ dirExists => /\ dir[NON_CREDITABLE_SEED] = OldFile(NON_CREDITABLE_SEED, 600)
                    /\ dir[CREDITABLE_SEED] = OldFile(CREDITABLE_SEED, 64)

\* ---- main(): up to the lock ---------------------------------------------
\* if (getuid()) return 1; then blake2s_init and the absorption of prefix,
\* wall-clock time and boot time
MainInit(p) ==
    /\ pc[p] = "start"
    /\ \E u \in Uids :
          IF u # 0
          THEN /\ program_ret' = [program_ret EXCEPT ![p] = 1]
               /\ failed' = [failed EXCEPT ![p] = @ \cup {"privilege"}]
               /\ pc' = [pc EXCEPT ![p] = "return"]
               /\ UNCHANGED hash
          ELSE /\ hash' = [hash EXCEPT ![p] =
                     blake2s_update(
                       blake2s_update(
                         blake2s_update(blake2s_init, FBytes(seedrng_prefix)),
                         FBytes(<<Chunk("realtime", p, 16)>>)),
                       FBytes(<<Chunk("boottime", p, 16)>>))]
               /\ pc' = [pc EXCEPT ![p] = "mkdir"]
               /\ UNCHANGED <<program_ret, failed>>
    /\ UNCHANGED <<shared, env, dfd, fd, new_seed, new_seed_len,
                   new_seed_creditable, sfLocals, attempted>>
    /\ UNCHANGED <<gone, poolsize, blake, twin, calls>>

\* if (mkdir(SEED_DIR, 0700) < 0 && errno != EEXIST) return 1;
MkDir(p) ==
    /\ pc[p] = "mkdir"
    /\ \/ /\ dirExists
          /\ pc' = [pc EXCEPT ![p] = "open_dir"]
          /\ UNCHANGED <<dirExists, program_ret, failed>>
       \/ /\ ~dirExists
          /\ dirExists' = TRUE
          /\ pc' = [pc EXCEPT ![p] = "open_dir"]
          /\ UNCHANGED <<program_ret, failed>>
       \/ /\ ~dirExists
          /\ program_ret' = [program_ret EXCEPT ![p] = 1]
          /\ failed' = [failed EXCEPT ![p] = @ \cup {"mkdir"}]
          /\ pc' = [pc EXCEPT ![p] = "return"]
          /\ UNCHANGED dirExists
    /\ UNCHANGED <<dir, lock, kernel, delivered, env, dfd, fd, hash, new_seed, new_seed_len,
                   new_seed_creditable, sfLocals, attempted>>
    /\ UNCHANGED <<gone, poolsize, blake, twin, calls>>

\* dfd = open(SEED_DIR, O_DIRECTORY | O_RDONLY); on failure goto out with status 1
OpenDir(p) ==
    /\ pc[p] = "open_dir"
    /\ \/ /\ dfd' = [dfd EXCEPT ![p] = TRUE]
          /\ pc' = [pc EXCEPT ![p] = "flock"]
          /\ UNCHANGED <<program_ret, failed>>
       \/ /\ program_ret' = [program_ret EXCEPT ![p] = 1]
          /\ failed' = [failed EXCEPT ![p] = @ \cup {"lock"}]
          /\ pc' = [pc EXCEPT ![p] = "out"]
          /\ UNCHANGED dfd
    /\ UNCHANGED <<shared, env, fd, hash, new_seed, new_seed_len,
                   new_seed_creditable, sfLocals, attempted>>
    /\ UNCHANGED <<gone, poolsize, blake, twin, calls>>

\* Processes run the same code and draw their inputs when they read them, so
\* only the behaviours that number the processes in the order in which they take
\* the lock or give up before it are kept (the others are these, renumbered):
\* p takes the lock once every process before it is past that point.
PreLock == {"start", "mkdir", "open_dir", "flock"}
Turn(p) == \A q \in Procs : q < p => pc[q] \notin PreLock

\* variant of Flock: the result of flock is not tested
Flock_Unchecked(p) ==
    /\ pc[p] = "flock"
    /\ Turn(p)
    /\ lock' = IF lock = 0 THEN p ELSE lock
    /\ pc' = [pc EXCEPT ![p] = "main_nc"]
    /\ UNCHANGED <<dirExists, dir, kernel, delivered, env, program_ret, dfd, fd, hash,
                   new_seed, new_seed_len, new_seed_creditable, sfLocals, history>>
    /\ UNCHANGED <<gone, poolsize, blake, twin, calls>>

\* variant of Flock: a failed flock sets the status and the run goes on
Flock_NoGoto(p) ==
    /\ pc[p] = "flock"
    /\ \/ /\ lock = 0
          /\ Turn(p)
          /\ lock' = p
          /\ UNCHANGED <<program_ret, failed>>
       \/ /\ program_ret' = [program_ret EXCEPT ![p] = 1]
          /\ failed' = [failed EXCEPT ![p] = @ \cup {"lock"}]
          /\ UNCHANGED lock
    /\ pc' = [pc EXCEPT ![p] = "main_nc"]
    /\ UNCHANGED <<dirExists, dir, kernel, delivered, env, dfd, fd, hash, new_seed,
                   new_seed_len, new_seed_creditable, sfLocals, attempted>>
    /\ UNCHANGED <<gone, poolsize, blake, twin, calls>>

\* flock(dfd, LOCK_EX): blocks while another open file description holds the
\* lock; on failure goto out with status 1
Flock(p) ==
    /\ pc[p] = "flock"
    /\ \/ /\ lock = 0
          /\ Turn(p)
          /\ lock' = p
          /\ pc' = [pc EXCEPT ![p] = "main_nc"]
          /\ UNCHANGED <<program_ret, failed>>
       \/ /\ program_ret' = [program_ret EXCEPT ![p] = 1]
          /\ failed' = [failed EXCEPT ![p] = @ \cup {"lock"}]
          /\ pc' = [pc EXCEPT ![p] = "out"]
          /\ UNCHANGED lock
    /\ UNCHANGED <<dirExists, dir, kernel, delivered, env, dfd, fd, hash, new_seed,
                   new_seed_len, new_seed_creditable, sfLocals, attempted>>
    /\ UNCHANGED <<gone, poolsize, blake, twin, calls>>

\* the positions of main() and of seed_from_file_if_exists() from the successful
\* flock to the label out
UnderLock == {"main_nc", "sf_open", "sf_read", "sf_unlink", "sf_fsync", "sf_update",
              "sf_seed", "sf_out", "sf_ret", "optimal_len", "read_new_seed", "finalize",
              "open_new", "write_new", "fsync_new", "rename"}

\* ---- seed_from_file_if_exists() -----------------------------------------
\* what main() does not touch while seed_from_file_if_exists runs
sfFrame == <<dirExists, lock, env, program_ret, dfd, fd, new_seed, new_seed_len,
             new_seed_creditable, filename, credit, attempted>>

\* the step of main() a consumption of the file called name is
ConsumeStep(name) == IF name = NON_CREDITABLE_SEED THEN "consume_nc" ELSE "consume_c"

\* goto out with ret = -errno
SfFail(p) ==
    /\ ret' = [ret EXCEPT ![p] = -EIO]
    /\ failed' = [failed EXCEPT ![p] = @ \cup {ConsumeStep(filename[p])}]
    /\ pc' = [pc EXCEPT ![p] = "sf_out"]

\* variant of SfOpen: ENOENT is an error like any other
SfOpen_NoEnoent(p) ==
    /\ pc[p] = "sf_open"
    /\ \/ /\ dir[filename[p]].exists
          /\ sf_fd' = [sf_fd EXCEPT ![p] = [open |-> TRUE, file |-> dir[filename[p]]]]
          /\ pc' = [pc EXCEPT ![p] = "sf_read"]
          /\ UNCHANGED <<ret, sf_result, failed>>
       \/ /\ SfFail(p)
          /\ UNCHANGED <<sf_fd, sf_result>>
    /\ UNCHANGED <<sfFrame, dir, kernel, delivered, hash, seed, seed_len, removed>>
    /\ UNCHANGED <<gone, poolsize, blake, twin, calls>>

\* fd = openat(dfd, filename, O_RDONLY); ENOENT returns 0 at once
SfOpen(p) ==
    /\ pc[p] = "sf_open"
    /\ IF ~dir[filename[p]].exists
       THEN /\ sf_result' = [sf_result EXCEPT ![p] = 0]
            /\ pc' = [pc EXCEPT ![p] = "sf_ret"]
            /\ UNCHANGED <<sf_fd, ret, failed>>
       ELSE \/ /\ sf_fd' = [sf_fd EXCEPT ![p] = [open |-> TRUE, file |-> dir[filename[p]]]]
               /\ pc' = [pc EXCEPT ![p] = "sf_read"]
               /\ UNCHANGED <<ret, sf_result, failed>>
            \/ /\ SfFail(p)
               /\ UNCHANGED <<sf_fd, sf_result>>
    /\ UNCHANGED <<sfFrame, dir, kernel, delivered, hash, seed, seed_len, removed>>
    /\ UNCHANGED <<gone, poolsize, blake, twin, calls>>

\* variant of SfRead: the whole file is read, whatever its length
SfRead_Unbounded(p) ==
    /\ pc[p] = "sf_read"
    /\ \/ /\ seed' = [seed EXCEPT ![p] = sf_fd[p].file.bytes]
          /\ seed_len' = [seed_len EXCEPT ![p] = BytesLen(seed'[p])]
          /\ pc' = [pc EXCEPT ![p] = "sf_unlink"]
          /\ UNCHANGED <<ret, failed>>
       \/ /\ SfFail(p)
          /\ UNCHANGED <<seed, seed_len>>
    /\ UNCHANGED <<sfFrame, dir, kernel, delivered, hash, sf_fd, sf_result, removed>>
    /\ UNCHANGED <<gone, poolsize, blake, twin, calls>>

\* seed_len = read_full(fd, seed, sizeof(seed))
SfRead(p) ==
    /\ pc[p] = "sf_read"
    /\ \/ /\ seed' = [seed EXCEPT ![p] = read_full(sf_fd[p].file, MAX_SEED_LEN)]
          /\ seed_len' = [seed_len EXCEPT ![p] = BytesLen(seed'[p])]
          /\ pc' = [pc EXCEPT ![p] = "sf_unlink"]
          /\ UNCHANGED <<ret, failed>>
       \/ /\ SfFail(p)
          /\ UNCHANGED <<seed, seed_len>>
    /\ UNCHANGED <<sfFrame, dir, kernel, delivered, hash, sf_fd, sf_result, removed>>
    /\ UNCHANGED <<gone, poolsize, blake, twin, calls>>

\* variant of SfRemoveFailed: an error whatever was read
SfRemoveFailed_Always(p) == SfFail(p)

\* where the code goes when unlinkat or fsync fails: an error if data was read,
\* else on to the test of seed_len
SfRemoveFailed(p) ==
    IF seed_len[p] # 0
    THEN SfFail(p)
    ELSE /\ pc' = [pc EXCEPT ![p] = "sf_out"]
         /\ UNCHANGED <<ret, failed>>

\* history: the content the file called name has, if it has any
Content(name) ==
    IF dir[name].exists /\ dir[name].bytes # <<>>
    THEN {[name |-> name, bytes |-> dir[name].bytes]}
    ELSE {}

\* variant of SfUnlink: the file is not unlinked
SfUnlink_Keep(p) ==
    /\ pc[p] = "sf_unlink"
    /\ \/ /\ dir[filename[p]].exists
          /\ removed' = [removed EXCEPT ![p] = "unlinked"]
          /\ pc' = [pc EXCEPT ![p] = "sf_fsync"]
          /\ UNCHANGED <<ret, failed>>
       \/ /\ SfRemoveFailed(p)
          /\ UNCHANGED removed
    /\ UNCHANGED <<sfFrame, dir, kernel, delivered, hash, sf_fd, seed, seed_len, sf_result>>
    /\ UNCHANGED <<gone, poolsize, blake, twin, calls>>

\* unlinkat(dfd, filename, 0)
SfUnlink(p) ==
    /\ pc[p] = "sf_unlink"
    /\ \/ /\ dir[filename[p]].exists
          /\ dir' = [dir EXCEPT ![filename[p]] = NoFile]
          /\ gone' = [gone EXCEPT ![p] = @ \cup Content(filename[p])]
          /\ removed' = [removed EXCEPT ![p] = "unlinked"]
          /\ pc' = [pc EXCEPT ![p] = "sf_fsync"]
          /\ UNCHANGED <<ret, failed>>
       \/ /\ SfRemoveFailed(p)
          /\ UNCHANGED <<dir, removed, gone>>
    /\ UNCHANGED <<sfFrame, kernel, delivered, hash, sf_fd, seed, seed_len, sf_result>>
    /\ UNCHANGED <<poolsize, blake, twin, calls>>

\* variant of SfFsync: the result of fsync is not tested
SfFsync_Unchecked(p) ==
    /\ pc[p] = "sf_fsync"
    /\ \E ok \in BOOLEAN : removed' = [removed EXCEPT ![p] = IF ok THEN "synced" ELSE @]
    /\ pc' = [pc EXCEPT ![p] = IF seed_len[p] = 0 THEN "sf_out" ELSE "sf_update"]
    /\ UNCHANGED <<sfFrame, dir, kernel, delivered, hash, sf_fd, seed, seed_len, ret,
                   sf_result, failed>>
    /\ UNCHANGED <<gone, poolsize, blake, twin, calls>>

\* variant of SfFsync: without if (!seed_len) goto out
SfFsync_NoEmptyCheck(p) ==
    /\ pc[p] = "sf_fsync"
    /\ \/ /\ removed' = [removed EXCEPT ![p] = "synced"]
          /\ pc' = [pc EXCEPT ![p] = "sf_update"]
          /\ UNCHANGED <<ret, failed>>
       \/ /\ SfRemoveFailed(p)
          /\ UNCHANGED removed
    /\ UNCHANGED <<sfFrame, dir, kernel, delivered, hash, sf_fd, seed, seed_len, sf_result>>
    /\ UNCHANGED <<gone, poolsize, blake, twin, calls>>

\* fsync(dfd), then if (!seed_len) goto out
SfFsync(p) ==
    /\ pc[p] = "sf_fsync"
    /\ \/ /\ removed' = [removed EXCEPT ![p] = "synced"]
          /\ pc' = [pc EXCEPT ![p] = IF seed_len[p] = 0 THEN "sf_out" ELSE "sf_update"]
          /\ UNCHANGED <<ret, failed>>
       \/ /\ SfRemoveFailed(p)
          /\ UNCHANGED removed
    /\ UNCHANGED <<sfFrame, dir, kernel, delivered, hash, sf_fd, seed, seed_len, sf_result>>
    /\ UNCHANGED <<gone, poolsize, blake, twin, calls>>

\* variant of SfUpdate: the bytes are absorbed before their length
SfUpdate_Swapped(p) ==
    /\ pc[p] = "sf_update"
    /\ hash' = [hash EXCEPT ![p] =
          blake2s_update(blake2s_update(@, FBytes(seed[p])), FLen(seed_len[p]))]
    /\ delivered' = [delivered EXCEPT ![filename[p]] = TRUE]
    /\ pc' = [pc EXCEPT ![p] = "sf_seed"]
    /\ UNCHANGED <<sfFrame, dir, kernel, sf_fd, seed, seed_len, ret, sf_result, removed, failed>>
    /\ UNCHANGED <<gone, poolsize, blake, twin, calls>>

\* blake2s_update(hash, &seed_len, sizeof(seed_len)); blake2s_update(hash, seed, seed_len)
SfUpdate(p) ==
    /\ pc[p] = "sf_update"
    /\ hash' = [hash EXCEPT ![p] =
          blake2s_update(blake2s_update(@, FLen(seed_len[p])), FBytes(seed[p]))]
    /\ delivered' = [delivered EXCEPT ![filename[p]] = TRUE]
    /\ pc' = [pc EXCEPT ![p] = "sf_seed"]
    /\ UNCHANGED <<sfFrame, dir, kernel, sf_fd, seed, seed_len, ret, sf_result, removed, failed>>
    /\ UNCHANGED <<gone, poolsize, blake, twin, calls>>

\* history: process p has sent bytes of the file with this id to the kernel
MarkSent(f, id, p) == IF f.exists /\ f.id = id THEN [f EXCEPT !.sent = @ \cup {p}] ELSE f

\* seed_rng(seed, seed_len, credit): EFBIG for an oversized buffer, else open
\* /dev/urandom and ioctl(RNDADDENTROPY); each of the two can fail
SfSeedRng(p) ==
    /\ pc[p] = "sf_seed"
    /\ IF seed_len[p] > MAX_SEED_LEN
       THEN /\ ret' = [ret EXCEPT ![p] = -EFBIG]
            /\ failed' = [failed EXCEPT ![p] = @ \cup {ConsumeStep(filename[p])}]
            /\ UNCHANGED <<kernel, dir, sf_fd>>
       ELSE \/ /\ ret' = [ret EXCEPT ![p] = -EIO]
               /\ failed' = [failed EXCEPT ![p] = @ \cup {ConsumeStep(filename[p])}]
               /\ UNCHANGED <<kernel, dir, sf_fd>>
            \/ /\ kernel' = kernel \cup
                     {Request(p, filename[p], sf_fd[p].file, seed[p], seed_len[p], credit[p])}
               /\ dir' = [n \in Names |-> MarkSent(dir[n], sf_fd[p].file.id, p)]
               /\ sf_fd' = [q \in Procs |->
                     [sf_fd[q] EXCEPT !.file = MarkSent(@, sf_fd[p].file.id, p)]]
               /\ \/ UNCHANGED <<ret, failed>>
                  \/ /\ ret' = [ret EXCEPT ![p] = -EIO]
                     /\ failed' = [failed EXCEPT ![p] = @ \cup {ConsumeStep(filename[p])}]
    /\ pc' = [pc EXCEPT ![p] = "sf_out"]
    /\ UNCHANGED <<sfFrame, delivered, hash, seed, seed_len, sf_result, removed>>
    /\ UNCHANGED <<gone, poolsize, blake, twin, calls>>

\* out: close(fd); return ret ? -1 : 0
SfOut(p) ==
    /\ pc[p] = "sf_out"
    /\ sf_fd' = [sf_fd EXCEPT ![p] = ClosedFd]
    /\ sf_result' = [sf_result EXCEPT ![p] = IF ret[p] # 0 THEN -1 ELSE 0]
    /\ pc' = [pc EXCEPT ![p] = "sf_ret"]
    /\ UNCHANGED <<sfFrame, dir, kernel, delivered, hash, seed, seed_len, ret, removed, failed>>
    /\ UNCHANGED <<gone, poolsize, blake, twin, calls>>

\* ---- main(): under the lock ---------------------------------------------
\* the call seed_from_file_if_exists(name, dfd, c, &hash), with new locals
Call(p, name, c) ==
    /\ filename' = [filename EXCEPT ![p] = name]
    /\ credit' = [credit EXCEPT ![p] = c]
    /\ sf_fd' = [sf_fd EXCEPT ![p] = ClosedFd]
    /\ seed' = [seed EXCEPT ![p] = <<>>]
    /\ seed_len' = [seed_len EXCEPT ![p] = 0]
    /\ ret' = [ret EXCEPT ![p] = 0]
    /\ removed' = [removed EXCEPT ![p] = "no"]
    /\ attempted' = [attempted EXCEPT ![p] = @ \cup {ConsumeStep(name)}]
    /\ pc' = [pc EXCEPT ![p] = "sf_open"]

\* seed_from_file_if_exists(NON_CREDITABLE_SEED, dfd, false, &hash)
MainSeedNonCreditable(p) ==
    /\ pc[p] = "main_nc"
    /\ Call(p, NON_CREDITABLE_SEED, FALSE)
    /\ UNCHANGED <<shared, mainLocals, sf_result, failed>>
    /\ UNCHANGED <<gone, poolsize, blake, twin, calls>>

\* variant of MainSeedCreditable: credit is true whatever skip_credit() says
MainSeedCreditable_Credit(p) ==
    /\ pc[p] = "sf_ret"
    /\ filename[p] = NON_CREDITABLE_SEED
    /\ program_ret' = [program_ret EXCEPT ![p] = IF sf_result[p] < 0 THEN SetBit(@, 1) ELSE @]
    /\ \E e \in EnvValues :
          /\ env' = [env EXCEPT ![p] = e]
          /\ Call(p, CREDITABLE_SEED, TRUE)
    /\ UNCHANGED <<shared, dfd, fd, hash, new_seed, new_seed_len,
                   new_seed_creditable, sf_result, failed>>
    /\ UNCHANGED <<gone, poolsize, blake, twin, calls>>

\* if (... < 0) program_ret |= 1 << 1; then
\* seed_from_file_if_exists(CREDITABLE_SEED, dfd, !skip_credit(), &hash),
\* getenv("SEEDRNG_SKIP_CREDIT") giving one of envs
MainSeedCreditableFrom(p, envs) ==
    /\ pc[p] = "sf_ret"
    /\ filename[p] = NON_CREDITABLE_SEED
    /\ program_ret' = [program_ret EXCEPT ![p] = IF sf_result[p] < 0 THEN SetBit(@, 1) ELSE @]
    /\ \E e \in envs :
          /\ env' = [env EXCEPT ![p] = e]
          /\ Call(p, CREDITABLE_SEED, ~skip_credit(e))
    /\ UNCHANGED <<shared, dfd, fd, hash, new_seed, new_seed_len,
                   new_seed_creditable, sf_result, failed>>
    /\ UNCHANGED <<gone, poolsize, blake, twin, calls>>

MainSeedCreditable(p) == MainSeedCreditableFrom(p, EnvValues)

\* variant of MainAfterCreditable: the failure is recorded in bit 1
MainAfterCreditable_Bit1(p) ==
    /\ pc[p] = "sf_ret"
    /\ filename[p] = CREDITABLE_SEED
    /\ program_ret' = [program_ret EXCEPT ![p] = IF sf_result[p] < 0 THEN SetBit(@, 1) ELSE @]
    /\ seed' = [seed EXCEPT ![p] = <<>>]
    /\ seed_len' = [seed_len EXCEPT ![p] = 0]
    /\ ret' = [ret EXCEPT ![p] = 0]
    /\ removed' = [removed EXCEPT ![p] = "no"]
    /\ pc' = [pc EXCEPT ![p] = "optimal_len"]
    /\ UNCHANGED <<shared, env, dfd, fd, hash, new_seed, new_seed_len,
                   new_seed_creditable, filename, credit, sf_fd, sf_result, history>>
    /\ UNCHANGED <<gone, poolsize, blake, twin, calls>>

\* variant of MainAfterCreditable: a failed consumption ends the run (goto out)
MainAfterCreditable_Abort(p) ==
    /\ pc[p] = "sf_ret"
    /\ filename[p] = CREDITABLE_SEED
    /\ program_ret' = [program_ret EXCEPT ![p] = IF sf_result[p] < 0 THEN SetBit(@, 2) ELSE @]
    /\ seed' = [seed EXCEPT ![p] = <<>>]
    /\ seed_len' = [seed_len EXCEPT ![p] = 0]
    /\ ret' = [ret EXCEPT ![p] = 0]
    /\ removed' = [removed EXCEPT ![p] = "no"]
    /\ pc' = [pc EXCEPT ![p] = IF sf_result[p] < 0 THEN "out" ELSE "optimal_len"]
    /\ UNCHANGED <<shared, env, dfd, fd, hash, new_seed, new_seed_len,
                   new_seed_creditable, filename, credit, sf_fd, sf_result, history>>
    /\ UNCHANGED <<gone, poolsize, blake, twin, calls>>

\* if (... < 0) program_ret |= 1 << 2; the locals of the call are no more
MainAfterCreditable(p) ==
    /\ pc[p] = "sf_ret"
    /\ filename[p] = CREDITABLE_SEED
    /\ program_ret' = [program_ret EXCEPT ![p] = IF sf_result[p] < 0 THEN SetBit(@, 2) ELSE @]
    /\ seed' = [seed EXCEPT ![p] = <<>>]
    /\ seed_len' = [seed_len EXCEPT ![p] = 0]
    /\ ret' = [ret EXCEPT ![p] = 0]
    /\ removed' = [removed EXCEPT ![p] = "no"]
    /\ pc' = [pc EXCEPT ![p] = "optimal_len"]
    /\ UNCHANGED <<shared, env, dfd, fd, hash, new_seed, new_seed_len,
                   new_seed_creditable, filename, credit, sf_fd, sf_result, history>>
    /\ UNCHANGED <<gone, poolsize, blake, twin, calls>>

\* the decimal digits, DigitChars[d + 1] being the digit d
DigitChars == <<"0", "1", "2", "3", "4", "5", "6", "7", "8", "9">>

\* the characters of the number n >= 0 in decimal
RECURSIVE Decimal(_)
Decimal(n) ==
    IF n < 10 THEN <<DigitChars[n + 1]>>
    ELSE Decimal(n \div 10) \o <<DigitChars[(n % 10) + 1]>>

\* what /proc/sys/kernel/random/poolsize holds when the pool has the given
\* number of bits: the number in decimal and a newline
PoolsizeFile(bits) == Decimal(bits) \o <<"\n">>

\* strtoul(s, NULL, 10) of a character sequence without sign: white space is
\* skipped, then the digits up to the first other character are the value,
\* 0 when there are none (the ten characters read stay below ULONG_MAX)
RECURSIVE strtoul_digits(_, _)
strtoul_digits(s, acc) ==
    IF s = <<>> \/ ~\E d \in 0..9 : DigitChars[d + 1] = Head(s) THEN acc
    ELSE strtoul_digits(Tail(s),
             10 * acc + (CHOOSE d \in 0..9 : DigitChars[d + 1] = Head(s)))

RECURSIVE strtoul(_)
strtoul(s) ==
    IF s # <<>> /\ Head(s) \in {" ", "\t", "\n"} THEN strtoul(Tail(s))
    ELSE strtoul_digits(s, 0)

\* variant of determine_optimal_seed_len: without the lower clamp
determine_optimal_seed_len_NoMin(readable, bits) ==
    LET poolsize_str == SubSeq(PoolsizeFile(bits), 1,
                               IF Len(PoolsizeFile(bits)) < 10
                               THEN Len(PoolsizeFile(bits)) ELSE 10)
        r == IF ~readable THEN MIN_SEED_LEN
             ELSE DIV_ROUND_UP(strtoul(poolsize_str), 8)
    IN  IF r > MAX_SEED_LEN THEN MAX_SEED_LEN ELSE r

\* the value determine_optimal_seed_len() returns when poolsize could be read
\* (readable) and the pool has the given number of bits: the first
\* sizeof(poolsize_str) - 1 = 10 characters of the file are read and parsed
determine_optimal_seed_len(readable, bits) ==
    LET poolsize_str == SubSeq(PoolsizeFile(bits), 1,
                               IF Len(PoolsizeFile(bits)) < 10
                               THEN Len(PoolsizeFile(bits)) ELSE 10)
        r == IF ~readable THEN MIN_SEED_LEN
             ELSE DIV_ROUND_UP(strtoul(poolsize_str), 8)
    IN  IF r < MIN_SEED_LEN THEN MIN_SEED_LEN
        ELSE IF r > MAX_SEED_LEN THEN MAX_SEED_LEN
        ELSE r

\* new_seed_len = determine_optimal_seed_len(), poolsize holding one of sizes
DetermineOptimalSeedLenFrom(p, sizes) ==
    /\ pc[p] = "optimal_len"
    /\ \E readable \in BOOLEAN, bits \in sizes :
          /\ poolsize' = [poolsize EXCEPT ![p] =
                 [readable |-> readable, bits |-> IF readable THEN bits ELSE 0]]
          /\ new_seed_len' = [new_seed_len EXCEPT ![p] =
                 determine_optimal_seed_len(readable, bits)]
    /\ pc' = [pc EXCEPT ![p] = "read_new_seed"]
    /\ UNCHANGED <<shared, env, program_ret, dfd, fd, hash, new_seed,
                   new_seed_creditable, sfLocals, history, gone, blake, twin, calls>>

DetermineOptimalSeedLen(p) == DetermineOptimalSeedLenFrom(p, PoolSizes)

\* what the system calls of read_new_seed can answer
GetrandomResults == {"full", "ENOSYS", "error"}
ReadResults == {"full", "short", "error"}

\* the calls read_new_seed makes, given what each would answer: "none" for a
\* call that is not made
CallsMade(gr, rnd_open, ready, insecure, ur_open, ur_read) ==
    LET poll == gr = "ENOSYS" /\ rnd_open
        second == gr = "error"
        urandom == poll \/ (second /\ ~insecure)
    IN  [getrandom_nonblock |-> gr,
         open_random |-> IF gr # "ENOSYS" THEN "none" ELSE IF rnd_open THEN "ok" ELSE "fail",
         poll |-> IF ~poll THEN "none" ELSE IF ready THEN "ready" ELSE "not ready",
         getrandom_insecure |-> IF ~second THEN "none" ELSE IF insecure THEN "full" ELSE "fail",
         open_urandom |-> IF ~urandom THEN "none" ELSE IF ur_open THEN "ok" ELSE "fail",
         read_urandom |-> IF ~(urandom /\ ur_open) THEN "none" ELSE ur_read]

\* variant of read_new_seed: the bytes of getrandom(GRND_INSECURE) are creditable
read_new_seed_InsecureCredit(p, len, gr, rnd_open, ready, insecure, ur_open, ur_read) ==
    LET urandom(c) ==
            IF ~ur_open
            THEN [ret |-> -1, creditable |-> c, seed |-> <<>>, fallback |-> FALSE]
            ELSE IF ur_read = "full"
            THEN [ret |-> 0, creditable |-> c, seed |-> <<Chunk("random", p, len)>>,
                  fallback |-> TRUE]
            ELSE [ret |-> -1, creditable |-> c, seed |-> <<>>, fallback |-> TRUE]
    IN  IF gr = "full"
        THEN [ret |-> 0, creditable |-> TRUE, seed |-> <<Chunk("random", p, len)>>,
              fallback |-> FALSE]
        ELSE IF gr = "ENOSYS"
        THEN IF ~rnd_open
             THEN [ret |-> -EIO, creditable |-> FALSE, seed |-> <<>>, fallback |-> FALSE]
             ELSE urandom(ready)
        ELSE IF insecure
        THEN [ret |-> 0, creditable |-> TRUE, seed |-> <<Chunk("random", p, len)>>,
              fallback |-> FALSE]
        ELSE urandom(FALSE)

\* read_new_seed(seed, len, &is_creditable) of process p, given the answers of
\* getrandom(GRND_NONBLOCK), open("/dev/random"), poll, getrandom(GRND_INSECURE),
\* open("/dev/urandom") and read_full.  fallback: the read of /dev/urandom was made
read_new_seed(p, len, gr, rnd_open, ready, insecure, ur_open, ur_read) ==
    LET urandom(c) ==
            IF ~ur_open
            THEN [ret |-> -1, creditable |-> c, seed |-> <<>>, fallback |-> FALSE]
            ELSE IF ur_read = "full"
            THEN [ret |-> 0, creditable |-> c, seed |-> <<Chunk("random", p, len)>>,
                  fallback |-> TRUE]
            ELSE [ret |-> -1, creditable |-> c, seed |-> <<>>, fallback |-> TRUE]
    IN  IF gr = "full"
        THEN [ret |-> 0, creditable |-> TRUE, seed |-> <<Chunk("random", p, len)>>,
              fallback |-> FALSE]
        ELSE IF gr = "ENOSYS"
        THEN IF ~rnd_open
             THEN [ret |-> -EIO, creditable |-> FALSE, seed |-> <<>>, fallback |-> FALSE]
             ELSE urandom(ready)
        ELSE IF insecure
        THEN [ret |-> 0, creditable |-> FALSE, seed |-> <<Chunk("random", p, len)>>,
              fallback |-> FALSE]
        ELSE urandom(FALSE)

\* strncpy(dst, src, n): n bytes, src cut or padded with zero bytes
strncpy(src, n) ==
    IF BytesLen(src) >= n THEN Prefix(src, n)
    ELSE src \o <<Chunk("zero", 0, n - BytesLen(src))>>

\* variant of ReadNewSeed: a failure of read_new_seed ends the run (goto out)
ReadNewSeed_Abort(p) ==
    /\ pc[p] = "read_new_seed"
    /\ \E gr \in GetrandomResults, rnd_open \in BOOLEAN, ready \in BOOLEAN,
          insecure \in BOOLEAN, ur_open \in BOOLEAN, ur_read \in ReadResults :
          LET r == read_new_seed(p, new_seed_len[p], gr, rnd_open, ready, insecure,
                                 ur_open, ur_read)
          IN  /\ new_seed_creditable' = [new_seed_creditable EXCEPT ![p] = r.creditable]
              /\ calls' = [calls EXCEPT ![p] =
                     CallsMade(gr, rnd_open, ready, insecure, ur_open, ur_read)]
              /\ IF r.ret < 0
                 THEN /\ program_ret' = [program_ret EXCEPT ![p] = SetBit(@, 3)]
                      /\ failed' = [failed EXCEPT ![p] = @ \cup {"generate"}]
                      /\ pc' = [pc EXCEPT ![p] = "out"]
                      /\ UNCHANGED <<new_seed, new_seed_len>>
                 ELSE /\ new_seed' = [new_seed EXCEPT ![p] = r.seed]
                      /\ pc' = [pc EXCEPT ![p] = "finalize"]
                      /\ UNCHANGED <<new_seed_len, program_ret, failed>>
    /\ attempted' = [attempted EXCEPT ![p] = @ \cup {"generate"}]
    /\ UNCHANGED <<shared, env, dfd, fd, hash, sfLocals>>
    /\ poolsize' = [poolsize EXCEPT ![p] = NoPool]
    /\ UNCHANGED <<gone, blake, twin>>

\* variant of ReadNewSeed: without new_seed_len = BLAKE2S_HASH_LEN
ReadNewSeed_KeepLen(p) ==
    /\ pc[p] = "read_new_seed"
    /\ \E gr \in GetrandomResults, rnd_open \in BOOLEAN, ready \in BOOLEAN,
          insecure \in BOOLEAN, ur_open \in BOOLEAN, ur_read \in ReadResults :
          LET r == read_new_seed(p, new_seed_len[p], gr, rnd_open, ready, insecure,
                                 ur_open, ur_read)
          IN  /\ new_seed_creditable' = [new_seed_creditable EXCEPT ![p] = r.creditable]
              /\ calls' = [calls EXCEPT ![p] =
                     CallsMade(gr, rnd_open, ready, insecure, ur_open, ur_read)]
              /\ IF r.ret < 0
                 THEN /\ new_seed' = [new_seed EXCEPT ![p] =
                             strncpy(seedrng_failure, new_seed_len[p])]
                      /\ program_ret' = [program_ret EXCEPT ![p] = SetBit(@, 3)]
                      /\ failed' = [failed EXCEPT ![p] = @ \cup {"generate"}]
                 ELSE /\ new_seed' = [new_seed EXCEPT ![p] = r.seed]
                      /\ UNCHANGED <<program_ret, failed>>
    /\ attempted' = [attempted EXCEPT ![p] = @ \cup {"generate"}]
    /\ pc' = [pc EXCEPT ![p] = "finalize"]
    /\ UNCHANGED <<shared, env, dfd, fd, hash, sfLocals, new_seed_len>>
    /\ poolsize' = [poolsize EXCEPT ![p] = NoPool]
    /\ UNCHANGED <<gone, blake, twin>>

\* if (read_new_seed(new_seed, new_seed_len, &new_seed_creditable) < 0) {
\*     new_seed_len = BLAKE2S_HASH_LEN; strncpy(...); program_ret |= 1 << 3; }
ReadNewSeed(p) ==
    /\ pc[p] = "read_new_seed"
    /\ \E gr \in GetrandomResults, rnd_open \in BOOLEAN, ready \in BOOLEAN,
          insecure \in BOOLEAN, ur_open \in BOOLEAN, ur_read \in ReadResults :
          LET r == read_new_seed(p, new_seed_len[p], gr, rnd_open, ready, insecure,
                                 ur_open, ur_read)
          IN  /\ new_seed_creditable' = [new_seed_creditable EXCEPT ![p] = r.creditable]
              /\ calls' = [calls EXCEPT ![p] =
                     CallsMade(gr, rnd_open, ready, insecure, ur_open, ur_read)]
              /\ IF r.ret < 0
                 THEN /\ new_seed_len' = [new_seed_len EXCEPT ![p] = BLAKE2S_HASH_LEN]
                      /\ new_seed' = [new_seed EXCEPT ![p] =
                             strncpy(seedrng_failure, BLAKE2S_HASH_LEN)]
                      /\ program_ret' = [program_ret EXCEPT ![p] = SetBit(@, 3)]
                      /\ failed' = [failed EXCEPT ![p] = @ \cup {"generate"}]
                 ELSE /\ new_seed' = [new_seed EXCEPT ![p] = r.seed]
                      /\ UNCHANGED <<new_seed_len, program_ret, failed>>
    /\ attempted' = [attempted EXCEPT ![p] = @ \cup {"generate"}]
    /\ pc' = [pc EXCEPT ![p] = "finalize"]
    /\ UNCHANGED <<shared, env, dfd, fd, hash, sfLocals>>
    /\ poolsize' = [poolsize EXCEPT ![p] = NoPool]
    /\ UNCHANGED <<gone, blake, twin>>

\* variant of Finalize: the digest is put at the head of new_seed
Finalize_Head(p) ==
    /\ pc[p] = "finalize"
    /\ hash' = [hash EXCEPT ![p] =
          blake2s_final(
            blake2s_update(blake2s_update(@, FLen(new_seed_len[p])), FBytes(new_seed[p])))]
    /\ new_seed' = [new_seed EXCEPT ![p] =
          Digest(p) \o Prefix(@, new_seed_len[p] - BLAKE2S_HASH_LEN)]
    /\ pc' = [pc EXCEPT ![p] = "open_new"]
    /\ UNCHANGED <<shared, env, program_ret, dfd, fd, new_seed_len,
                   new_seed_creditable, sfLocals, history>>
    /\ UNCHANGED <<gone, poolsize, blake, twin>>
    /\ calls' = [calls EXCEPT ![p] = NoCalls]

\* blake2s_update(&hash, &new_seed_len, sizeof(new_seed_len));
\* blake2s_update(&hash, new_seed, new_seed_len);
\* blake2s_final(&hash, new_seed + new_seed_len - BLAKE2S_HASH_LEN)
Finalize(p) ==
    /\ pc[p] = "finalize"
    /\ hash' = [hash EXCEPT ![p] =
          blake2s_final(
            blake2s_update(blake2s_update(@, FLen(new_seed_len[p])), FBytes(new_seed[p])))]
    /\ new_seed' = [new_seed EXCEPT ![p] =
          Prefix(@, new_seed_len[p] - BLAKE2S_HASH_LEN) \o Digest(p)]
    /\ pc' = [pc EXCEPT ![p] = "open_new"]
    /\ UNCHANGED <<shared, env, program_ret, dfd, fd, new_seed_len,
                   new_seed_creditable, sfLocals, history>>
    /\ UNCHANGED <<gone, poolsize, blake, twin>>
    /\ calls' = [calls EXCEPT ![p] = NoCalls]

\* fd = openat(dfd, NON_CREDITABLE_SEED, O_WRONLY | O_CREAT | O_TRUNC, 0400);
\* on failure program_ret |= 1 << 4 and goto out
MainOpenNew(p) ==
    /\ pc[p] = "open_new"
    /\ attempted' = [attempted EXCEPT ![p] = @ \cup {"open"}]
    /\ \/ /\ dir' = [dir EXCEPT ![NON_CREDITABLE_SEED] = File(p, <<>>)]
          /\ gone' = [gone EXCEPT ![p] = @ \cup Content(NON_CREDITABLE_SEED)]
          /\ delivered' = [delivered EXCEPT ![NON_CREDITABLE_SEED] = FALSE]
          /\ fd' = [fd EXCEPT ![p] = TRUE]
          /\ pc' = [pc EXCEPT ![p] = "write_new"]
          /\ UNCHANGED <<program_ret, failed>>
       \/ /\ program_ret' = [program_ret EXCEPT ![p] = SetBit(@, 4)]
          /\ failed' = [failed EXCEPT ![p] = @ \cup {"open"}]
          /\ pc' = [pc EXCEPT ![p] = "out"]
          /\ UNCHANGED <<dir, delivered, fd, gone>>
    /\ UNCHANGED <<dirExists, lock, kernel, env, dfd, hash, new_seed, new_seed_len,
                   new_seed_creditable, sfLocals>>
    /\ UNCHANGED <<poolsize, blake, twin, calls>>

\* the file fd refers to receives the bytes b, if it still has a name
WriteFd(p, b) ==
    IF dir[NON_CREDITABLE_SEED].exists /\ dir[NON_CREDITABLE_SEED].id = p
    THEN dir' = [dir EXCEPT ![NON_CREDITABLE_SEED].bytes = b]
    ELSE IF dir[CREDITABLE_SEED].exists /\ dir[CREDITABLE_SEED].id = p
    THEN dir' = [dir EXCEPT ![CREDITABLE_SEED].bytes = b]
    ELSE UNCHANGED dir

\* the numbers of bytes a failing write_full may have written
PartialWrites(len) == {0, len - 1}

\* variant of MainWrite: a failed write sets the bit and goes on to the fsync
MainWrite_NoGoto(p) ==
    /\ pc[p] = "write_new"
    /\ attempted' = [attempted EXCEPT ![p] = @ \cup {"write"}]
    /\ \/ /\ WriteFd(p, Prefix(new_seed[p], new_seed_len[p]))
          /\ UNCHANGED <<program_ret, failed>>
       \/ /\ \E k \in PartialWrites(new_seed_len[p]) : WriteFd(p, Prefix(new_seed[p], k))
          /\ program_ret' = [program_ret EXCEPT ![p] = SetBit(@, 5)]
          /\ failed' = [failed EXCEPT ![p] = @ \cup {"write"}]
    /\ pc' = [pc EXCEPT ![p] = "fsync_new"]
    /\ UNCHANGED <<dirExists, lock, kernel, delivered, env, dfd, fd, hash, new_seed,
                   new_seed_len, new_seed_creditable, sfLocals>>
    /\ UNCHANGED <<gone, poolsize, blake, twin, calls>>

\* write_full(fd, new_seed, new_seed_len) != new_seed_len: program_ret |= 1 << 5, goto out
MainWrite(p) ==
    /\ pc[p] = "write_new"
    /\ attempted' = [attempted EXCEPT ![p] = @ \cup {"write"}]
    /\ \/ /\ WriteFd(p, Prefix(new_seed[p], new_seed_len[p]))
          /\ pc' = [pc EXCEPT ![p] = "fsync_new"]
          /\ UNCHANGED <<program_ret, failed>>
       \/ /\ \E k \in PartialWrites(new_seed_len[p]) : WriteFd(p, Prefix(new_seed[p], k))
          /\ program_ret' = [program_ret EXCEPT ![p] = SetBit(@, 5)]
          /\ failed' = [failed EXCEPT ![p] = @ \cup {"write"}]
          /\ pc' = [pc EXCEPT ![p] = "out"]
    /\ UNCHANGED <<dirExists, lock, kernel, delivered, env, dfd, fd, hash, new_seed,
                   new_seed_len, new_seed_creditable, sfLocals>>
    /\ UNCHANGED <<gone, poolsize, blake, twin, calls>>

\* variant of MainFsync: a failed fsync sets the bit and goes on to the rename
MainFsync_NoGoto(p) ==
    /\ pc[p] = "fsync_new"
    /\ \/ /\ pc' = [pc EXCEPT ![p] = "rename"]
          /\ UNCHANGED <<program_ret, failed>>
       \/ /\ program_ret' = [program_ret EXCEPT ![p] = SetBit(@, 5)]
          /\ failed' = [failed EXCEPT ![p] = @ \cup {"write"}]
          /\ pc' = [pc EXCEPT ![p] = "rename"]
    /\ UNCHANGED <<shared, env, dfd, fd, hash, new_seed, new_seed_len,
                   new_seed_creditable, sfLocals, attempted>>
    /\ UNCHANGED <<gone, poolsize, blake, twin, calls>>

\* || fsync(fd) < 0: program_ret |= 1 << 5, goto out
MainFsync(p) ==
    /\ pc[p] = "fsync_new"
    /\ \/ /\ pc' = [pc EXCEPT ![p] = "rename"]
          /\ UNCHANGED <<program_ret, failed>>
       \/ /\ program_ret' = [program_ret EXCEPT ![p] = SetBit(@, 5)]
          /\ failed' = [failed EXCEPT ![p] = @ \cup {"write"}]
          /\ pc' = [pc EXCEPT ![p] = "out"]
    /\ UNCHANGED <<shared, env, dfd, fd, hash, new_seed, new_seed_len,
                   new_seed_creditable, sfLocals, attempted>>
    /\ UNCHANGED <<gone, poolsize, blake, twin, calls>>

\* variant of MainRename: the rename is made whatever new_seed_creditable is
MainRename_Always(p) ==
    /\ pc[p] = "rename"
    /\ attempted' = [attempted EXCEPT ![p] = @ \cup {"promote"}]
    /\ \/ /\ dir[NON_CREDITABLE_SEED].exists
          /\ dir' = [dir EXCEPT ![CREDITABLE_SEED] = dir[NON_CREDITABLE_SEED],
                                ![NON_CREDITABLE_SEED] = NoFile]
          /\ delivered' = [delivered EXCEPT ![CREDITABLE_SEED] = FALSE]
          /\ gone' = [gone EXCEPT ![p] = @ \cup Content(CREDITABLE_SEED)]
          /\ UNCHANGED <<program_ret, failed>>
       \/ /\ program_ret' = [program_ret EXCEPT ![p] = SetBit(@, 6)]
          /\ failed' = [failed EXCEPT ![p] = @ \cup {"promote"}]
          /\ UNCHANGED <<dir, delivered, gone>>
    /\ pc' = [pc EXCEPT ![p] = "out"]
    /\ UNCHANGED <<dirExists, lock, kernel, env, dfd, fd, hash, new_seed, new_seed_len,
                   new_seed_creditable, sfLocals>>
    /\ UNCHANGED <<poolsize, blake, twin, calls>>

\* variant of MainRename: a failed rename takes seed.no-credit away
MainRename_Cleanup(p) ==
    /\ pc[p] = "rename"
    /\ IF ~new_seed_creditable[p]
       THEN UNCHANGED <<dir, delivered, program_ret, attempted, failed, gone>>
       ELSE /\ attempted' = [attempted EXCEPT ![p] = @ \cup {"promote"}]
            /\ \/ /\ dir[NON_CREDITABLE_SEED].exists
                  /\ dir' = [dir EXCEPT ![CREDITABLE_SEED] = dir[NON_CREDITABLE_SEED],
                                        ![NON_CREDITABLE_SEED] = NoFile]
                  /\ delivered' = [delivered EXCEPT ![CREDITABLE_SEED] = FALSE]
                  /\ gone' = [gone EXCEPT ![p] = @ \cup Content(CREDITABLE_SEED)]
                  /\ UNCHANGED <<program_ret, failed>>
               \/ /\ program_ret' = [program_ret EXCEPT ![p] = SetBit(@, 6)]
                  /\ failed' = [failed EXCEPT ![p] = @ \cup {"promote"}]
                  /\ dir' = [dir EXCEPT ![NON_CREDITABLE_SEED] = NoFile]
                  /\ UNCHANGED <<delivered, gone>>
    /\ pc' = [pc EXCEPT ![p] = "out"]
    /\ UNCHANGED <<dirExists, lock, kernel, env, dfd, fd, hash, new_seed, new_seed_len,
                   new_seed_creditable, sfLocals>>
    /\ UNCHANGED <<poolsize, blake, twin, calls>>

\* variant of MainRename: no rename when SEEDRNG_SKIP_CREDIT is in force
MainRename_SkipCredit(p) ==
    /\ pc[p] = "rename"
    /\ IF ~new_seed_creditable[p] \/ skip_credit(env[p])
       THEN UNCHANGED <<dir, delivered, program_ret, attempted, failed, gone>>
       ELSE /\ attempted' = [attempted EXCEPT ![p] = @ \cup {"promote"}]
            /\ \/ /\ dir[NON_CREDITABLE_SEED].exists
                  /\ dir' = [dir EXCEPT ![CREDITABLE_SEED] = dir[NON_CREDITABLE_SEED],
                                        ![NON_CREDITABLE_SEED] = NoFile]
                  /\ delivered' = [delivered EXCEPT ![CREDITABLE_SEED] = FALSE]
                  /\ gone' = [gone EXCEPT ![p] = @ \cup Content(CREDITABLE_SEED)]
                  /\ UNCHANGED <<program_ret, failed>>
               \/ /\ program_ret' = [program_ret EXCEPT ![p] = SetBit(@, 6)]
                  /\ failed' = [failed EXCEPT ![p] = @ \cup {"promote"}]
                  /\ UNCHANGED <<dir, delivered, gone>>
    /\ pc' = [pc EXCEPT ![p] = "out"]
    /\ UNCHANGED <<dirExists, lock, kernel, env, dfd, fd, hash, new_seed, new_seed_len,
                   new_seed_creditable, sfLocals>>
    /\ UNCHANGED <<poolsize, blake, twin, calls>>

\* if (new_seed_creditable && renameat(dfd, NON_CREDITABLE_SEED, dfd, CREDITABLE_SEED) < 0)
\*     program_ret |= 1 << 6;
MainRename(p) ==
    /\ pc[p] = "rename"
    /\ IF ~new_seed_creditable[p]
       THEN UNCHANGED <<dir, delivered, program_ret, attempted, failed, gone>>
       ELSE /\ attempted' = [attempted EXCEPT ![p] = @ \cup {"promote"}]
            /\ \/ /\ dir[NON_CREDITABLE_SEED].exists
                  /\ dir' = [dir EXCEPT ![CREDITABLE_SEED] = dir[NON_CREDITABLE_SEED],
                                        ![NON_CREDITABLE_SEED] = NoFile]
                  /\ delivered' = [delivered EXCEPT ![CREDITABLE_SEED] = FALSE]
                  /\ gone' = [gone EXCEPT ![p] = @ \cup Content(CREDITABLE_SEED)]
                  /\ UNCHANGED <<program_ret, failed>>
               \/ /\ program_ret' = [program_ret EXCEPT ![p] = SetBit(@, 6)]
                  /\ failed' = [failed EXCEPT ![p] = @ \cup {"promote"}]
                  /\ UNCHANGED <<dir, delivered, gone>>
    /\ pc' = [pc EXCEPT ![p] = "out"]
    /\ UNCHANGED <<dirExists, lock, kernel, env, dfd, fd, hash, new_seed, new_seed_len,
                   new_seed_creditable, sfLocals>>
    /\ UNCHANGED <<poolsize, blake, twin, calls>>

\* the end of the process: its memory is gone
ProcessEnds(p) ==
    /\ pc' = [pc EXCEPT ![p] = "done"]
    /\ env' = [env EXCEPT ![p] = NoEnv]
    /\ program_ret' = [program_ret EXCEPT ![p] = 0]
    /\ hash' = [hash EXCEPT ![p] = blake2s_init]
    /\ new_seed' = [new_seed EXCEPT ![p] = <<>>]
    /\ new_seed_len' = [new_seed_len EXCEPT ![p] = 0]
    /\ new_seed_creditable' = [new_seed_creditable EXCEPT ![p] = FALSE]
    /\ filename' = [filename EXCEPT ![p] = ""]
    /\ credit' = [credit EXCEPT ![p] = FALSE]
    /\ sf_result' = [sf_result EXCEPT ![p] = 0]
    /\ attempted' = [attempted EXCEPT ![p] = {}]
    /\ failed' = [failed EXCEPT ![p] = {}]
    /\ gone' = [gone EXCEPT ![p] = {}]
    /\ poolsize' = [poolsize EXCEPT ![p] = NoPool]
    /\ kernel' = {r \in kernel : r.p # p}
    /\ calls' = [calls EXCEPT ![p] = NoCalls]
    /\ UNCHANGED <<sf_fd, seed, seed_len, ret, removed, blake, twin>>

\* variant of Out: the lock outlives the descriptor that took it
Out_KeepLock(p) ==
    /\ pc[p] = "out"
    /\ fd' = [fd EXCEPT ![p] = FALSE]
    /\ dfd' = [dfd EXCEPT ![p] = FALSE]
    /\ ProcessEnds(p)
    /\ UNCHANGED <<dirExists, dir, lock, delivered>>

\* out: close(fd); close(dfd), which drops the lock dfd holds; return program_ret
Out(p) ==
    /\ pc[p] = "out"
    /\ fd' = [fd EXCEPT ![p] = FALSE]
    /\ dfd' = [dfd EXCEPT ![p] = FALSE]
    /\ lock' = IF lock = p THEN 0 ELSE lock
    /\ ProcessEnds(p)
    /\ UNCHANGED <<dirExists, dir, delivered>>

\* return 1, before the directory was opened
Return1(p) ==
    /\ pc[p] = "return"
    /\ ProcessEnds(p)
    /\ UNCHANGED <<dirExists, dir, lock, delivered, dfd, fd>>

\* a step of invocation p
Run(p) ==
    \/ MainInit(p)
    \/ MkDir(p)
    \/ OpenDir(p)
    \/ Flock(p)
    \/ MainSeedNonCreditable(p)
    \/ SfOpen(p)
    \/ SfRead(p)
    \/ SfUnlink(p)
    \/ SfFsync(p)
    \/ SfUpdate(p)
    \/ SfSeedRng(p)
    \/ SfOut(p)
    \/ MainSeedCreditable(p)
    \/ MainAfterCreditable(p)
    \/ DetermineOptimalSeedLen(p)
    \/ ReadNewSeed(p)
    \/ Finalize(p)
    \/ MainOpenNew(p)
    \/ MainWrite(p)
    \/ MainFsync(p)
    \/ MainRename(p)
    \/ Out(p)
    \/ Return1(p)

Next == \E p \in Procs : Run(p)

\* any number of invocations, concurrently, from the first boot on
Spec == Init /\ [][Next]_vars

\* one invocation, whatever directory it finds
NextRun == Run(1)
SpecRun == InitAny /\ [][NextRun]_vars

\* ---- the invocations as scheduled processes --------------------------------
\* a step of invocation p other than a flock call returning an error: main()
\* has no loop and every call returns, so such a step is taken when one is
\* possible; a flock call on a held lock waits
Progress(p) == Run(p) /\ (pc[p] = "flock" => lock' = p)

SpecFair == Init /\ [][Next]_vars /\ \A p \in Procs : WF_vars(Progress(p))

\* ---- the invocations, any of which may be killed ------------------------------
\* main() stopped by a signal between two of its calls: its descriptors are
\* closed, which drops the lock, and its memory is gone; the directory is left
\* as it is
Kill(p) ==
    /\ pc[p] \notin {"done", "killed"}
    /\ fd' = [fd EXCEPT ![p] = FALSE]
    /\ dfd' = [dfd EXCEPT ![p] = FALSE]
    /\ lock' = IF lock = p THEN 0 ELSE lock
    /\ pc' = [pc EXCEPT ![p] = "killed"]
    /\ env' = [env EXCEPT ![p] = NoEnv]
    /\ program_ret' = [program_ret EXCEPT ![p] = 0]
    /\ hash' = [hash EXCEPT ![p] = blake2s_init]
    /\ new_seed' = [new_seed EXCEPT ![p] = <<>>]
    /\ new_seed_len' = [new_seed_len EXCEPT ![p] = 0]
    /\ new_seed_creditable' = [new_seed_creditable EXCEPT ![p] = FALSE]
    /\ filename' = [filename EXCEPT ![p] = ""]
    /\ credit' = [credit EXCEPT ![p] = FALSE]
    /\ sf_fd' = [sf_fd EXCEPT ![p] = ClosedFd]
    /\ seed' = [seed EXCEPT ![p] = <<>>]
    /\ seed_len' = [seed_len EXCEPT ![p] = 0]
    /\ ret' = [ret EXCEPT ![p] = 0]
    /\ sf_result' = [sf_result EXCEPT ![p] = 0]
    /\ removed' = [removed EXCEPT ![p] = "no"]
    /\ attempted' = [attempted EXCEPT ![p] = {}]
    /\ failed' = [failed EXCEPT ![p] = {}]
    /\ gone' = [gone EXCEPT ![p] = {}]
    /\ poolsize' = [poolsize EXCEPT ![p] = NoPool]
    /\ kernel' = {r \in kernel : r.p # p}
    /\ calls' = [calls EXCEPT ![p] = NoCalls]
    /\ UNCHANGED <<dirExists, dir, delivered, blake, twin>>

NextKill ==
    \/ \E p \in Procs : Run(p)
    \/ \E p \in Procs : Kill(p)

SpecKill == Init /\ [][NextKill]_vars

\* ---- two runs of main() on the same inputs ----------------------------------
\* The variables hold one run, twin.st the other, both as process 1. One run
\* takes a step of main(), then the other takes the step that has the same
\* effect but for what SEEDRNG_SKIP_CREDIT may decide, and so on in turns.
Snapshot ==
    [dirExists |-> dirExists, dir |-> dir, lock |-> lock, kernel |-> kernel,
     delivered |-> delivered, pc |-> pc, env |-> env, program_ret |-> program_ret,
     dfd |-> dfd, hash |-> hash, fd |-> fd, filename |-> filename, credit |-> credit,
     sf_fd |-> sf_fd, seed |-> seed, seed_len |-> seed_len, ret |-> ret,
     sf_result |-> sf_result, removed |-> removed, new_seed |-> new_seed,
     new_seed_len |-> new_seed_len, new_seed_creditable |-> new_seed_creditable,
     attempted |-> attempted, failed |-> failed, gone |-> gone, poolsize |-> poolsize,
     calls |-> calls]

\* the state s of a run without what skip_credit() decides: the value getenv
\* returned, the credit argument of seed_from_file_if_exists and the
\* entropy_count of the requests
NoCredit(s) ==
    [s EXCEPT !.env = [p \in Procs |-> NoEnv],
              !.credit = [p \in Procs |-> FALSE],
              !.kernel = {[r EXCEPT !.entropy_count = 0] : r \in s.kernel}]

\* the two runs are at the same point with the same effects so far
InSync == NoCredit(Snapshot) = NoCredit(twin.st)

\* the variables become those of the run s
Restore(s) ==
    /\ dirExists' = s.dirExists
    /\ dir' = s.dir
    /\ lock' = s.lock
    /\ kernel' = s.kernel
    /\ delivered' = s.delivered
    /\ pc' = s.pc
    /\ env' = s.env
    /\ program_ret' = s.program_ret
    /\ dfd' = s.dfd
    /\ hash' = s.hash
    /\ fd' = s.fd
    /\ filename' = s.filename
    /\ credit' = s.credit
    /\ sf_fd' = s.sf_fd
    /\ seed' = s.seed
    /\ seed_len' = s.seed_len
    /\ ret' = s.ret
    /\ sf_result' = s.sf_result
    /\ removed' = s.removed
    /\ new_seed' = s.new_seed
    /\ new_seed_len' = s.new_seed_len
    /\ new_seed_creditable' = s.new_seed_creditable
    /\ attempted' = s.attempted
    /\ failed' = s.failed
    /\ gone' = s.gone
    /\ poolsize' = s.poolsize
    /\ calls' = s.calls

\* both runs start in the same directory, that of Init
InitTwin ==
    /\ InitRun
    /\ dirExists => /\ dir[NON_CREDITABLE_SEED] = OldFile(NON_CREDITABLE_SEED, 600)
                    /\ dir[CREDITABLE_SEED] = OldFile(CREDITABLE_SEED, 64)
    /\ twin = [turn |-> "lead", st |-> Snapshot]

\* one run takes a step of main()
Lead ==
    /\ twin.turn = "lead"
    /\ InSync
    /\ Run(1)

\* the run that has stepped is put aside and the other one taken up
Swap ==
    /\ twin.turn = "lead"
    /\ ~InSync
    /\ Restore(twin.st)
    /\ twin' = [turn |-> "follow", st |-> Snapshot]
    /\ UNCHANGED blake

\* the other run takes the step of main() that brings it to the same point
Follow ==
    /\ twin.turn = "follow"
    /\ ~InSync
    /\ Run(1)
    /\ InSync'

\* the runs are together again: either may step next
Resync ==
    /\ twin.turn = "follow"
    /\ InSync
    /\ twin' = [twin EXCEPT !.turn = "lead"]
    /\ UNCHANGED <<shared, pc, mainLocals, sfLocals, history, lenInput, blake, calls>>

NextTwin ==
    \/ Lead
    \/ Swap
    \/ Follow
    \/ Resync

SpecTwin == InitTwin /\ [][NextTwin]_vars


\* ---- determine_optimal_seed_len() over every pool size -------------------
\* the largest pool size, in bits, /proc/sys/kernel/random/poolsize reports
MaxPoolBits == 8200

\* invocation 1 on a first boot, at new_seed_len = determine_optimal_seed_len():
\* the directory is made, open and locked, no seed file was there to consume
InitLen ==
    /\ dirExists = TRUE
    /\ dir = [n \in Names |-> NoFile]
    /\ lock = 1
    /\ kernel = {}
    /\ delivered = [n \in Names |-> FALSE]
    /\ pc = [p \in Procs |-> IF p = 1 THEN "optimal_len" ELSE "start"]
    /\ env = [p \in Procs |-> NoEnv]
    /\ program_ret = [p \in Procs |-> 0]
    /\ dfd = [p \in Procs |-> p = 1]
    /\ fd = [p \in Procs |-> FALSE]
    /\ hash = [p \in Procs |->
          IF p = 1
          THEN blake2s_update(
                 blake2s_update(
                   blake2s_update(blake2s_init, FBytes(seedrng_prefix)),
                   FBytes(<<Chunk("realtime", p, 16)>>)),
                 FBytes(<<Chunk("boottime", p, 16)>>))
          ELSE blake2s_init]
    /\ filename = [p \in Procs |-> IF p = 1 THEN CREDITABLE_SEED ELSE ""]
    /\ credit = [p \in Procs |-> p = 1]
    /\ sf_fd = [p \in Procs |-> ClosedFd]
    /\ seed = [p \in Procs |-> <<>>]
    /\ seed_len = [p \in Procs |-> 0]
    /\ ret = [p \in Procs |-> 0]
    /\ sf_result = [p \in Procs |-> 0]
    /\ removed = [p \in Procs |-> "no"]
    /\ new_seed = [p \in Procs |-> <<>>]
    /\ new_seed_len = [p \in Procs |-> 0]
    /\ new_seed_creditable = [p \in Procs |-> FALSE]
    /\ attempted = [p \in Procs |-> IF p = 1 THEN {"consume_nc", "consume_c"} ELSE {}]
    /\ failed = [p \in Procs |-> {}]
    /\ gone = [p \in Procs |-> {}]
    /\ poolsize = [p \in Procs |-> NoPool]
    /\ calls = [p \in Procs |-> NoCalls]
    /\ blake = NoBlake
    /\ twin = NoTwin

NextLen == DetermineOptimalSeedLenFrom(1, 0..MaxPoolBits)

SpecLen == InitLen /\ [][NextLen]_vars

\* ---- skip_credit() over every value of SEEDRNG_SKIP_CREDIT ----------------
\* the longest value of the variable, and the characters it is made of
MaxEnvLen == 4
EnvChars == {"0", "1", "t", "T", "r", "R", "u", "U", "e", "E", "y", "Y", "s", "S",
             "o", "n"}
EnvStrings == {NoEnv} \cup
              {EnvStr(v) : v \in UNION {[1..n -> EnvChars] : n \in 0..MaxEnvLen}}

\* invocation 1 on a first boot, back from the consumption of seed.no-credit
\* and about to call skip_credit(): the directory is made, open and locked
InitEnv ==
    /\ dirExists = TRUE
    /\ dir = [n \in Names |-> NoFile]
    /\ lock = 1
    /\ kernel = {}
    /\ delivered = [n \in Names |-> FALSE]
    /\ pc = [p \in Procs |-> IF p = 1 THEN "sf_ret" ELSE "start"]
    /\ env = [p \in Procs |-> NoEnv]
    /\ program_ret = [p \in Procs |-> 0]
    /\ dfd = [p \in Procs |-> p = 1]
    /\ fd = [p \in Procs |-> FALSE]
    /\ hash = [p \in Procs |->
          IF p = 1
          THEN blake2s_update(
                 blake2s_update(
                   blake2s_update(blake2s_init, FBytes(seedrng_prefix)),
                   FBytes(<<Chunk("realtime", p, 16)>>)),
                 FBytes(<<Chunk("boottime", p, 16)>>))
          ELSE blake2s_init]
    /\ filename = [p \in Procs |-> IF p = 1 THEN NON_CREDITABLE_SEED ELSE ""]
    /\ credit = [p \in Procs |-> FALSE]
    /\ sf_fd = [p \in Procs |-> ClosedFd]
    /\ seed = [p \in Procs |-> <<>>]
    /\ seed_len = [p \in Procs |-> 0]
    /\ ret = [p \in Procs |-> 0]
    /\ sf_result = [p \in Procs |-> 0]
    /\ removed = [p \in Procs |-> "no"]
    /\ new_seed = [p \in Procs |-> <<>>]
    /\ new_seed_len = [p \in Procs |-> 0]
    /\ new_seed_creditable = [p \in Procs |-> FALSE]
    /\ attempted = [p \in Procs |-> IF p = 1 THEN {"consume_nc"} ELSE {}]
    /\ failed = [p \in Procs |-> {}]
    /\ gone = [p \in Procs |-> {}]
    /\ poolsize = [p \in Procs |-> NoPool]
    /\ calls = [p \in Procs |-> NoCalls]
    /\ blake = NoBlake
    /\ twin = NoTwin

NextEnv == MainSeedCreditableFrom(1, EnvStrings)

SpecEnv == InitEnv /\ [][NextEnv]_vars

\* ---- the hash functions over every stream of bytes -------------------------
\* the most bytes the two updates after the fixed ones absorb together
MaxAbsorb == 200

\* the bytes numbered from + 1 .. from + len of the stream
Stream(from, len) == [i \in 1..len |-> from + i]

\* before any invocation, two struct blake2s_state A and B lie in memory that
\* holds different things
InitHash ==
    /\ dirExists = FALSE
    /\ dir = [n \in Names |-> NoFile]
    /\ InitProcs
    /\ twin = NoTwin
    /\ blake = [phase |-> "raw", count |-> 0, A |-> Garbage(1), B |-> Garbage(2),
                s0 |-> ZeroState, s1 |-> ZeroState, x |-> <<>>, y |-> <<>>,
                outA |-> NoOut, outB |-> NoOut]

mainState == <<shared, pc, mainLocals, sfLocals, history, lenInput, calls, twin>>

\* blake2s_init(&hash, BLAKE2S_HASH_LEN) and the updates with the 25 bytes of
\* the prefix and the 16 bytes of each of the two times, as main() starts
MainHashInit(state) ==
    blake2s_update_bytes(
      blake2s_update_bytes(
        blake2s_update_bytes(blake2s_init_bytes(state, BLAKE2S_HASH_LEN),
                             Stream(0, 25)),
        Stream(25, 16)),
      Stream(41, 16))

\* main() up to the first seed file, on both
HashInit ==
    /\ blake.phase = "raw"
    /\ blake' = [blake EXCEPT !.phase = "absorb",
                              !.A = MainHashInit(blake.A),
                              !.B = MainHashInit(blake.B),
                              !.s0 = MainHashInit(blake.A),
                              !.s1 = MainHashInit(blake.A)]
    /\ UNCHANGED mainState

\* blake2s_update(&hash, inp, len) on both, with the next len bytes of the
\* stream, twice at most and of up to MaxAbsorb bytes together.
\* s0, x, s1, y: the state before the update before the last, what that
\* update absorbed, and the same of the last
HashUpdate ==
    /\ blake.phase = "absorb"
    /\ blake.count < 2
    /\ \E len \in 0..(MaxAbsorb - Len(blake.y)) :
          LET inp == Stream(blake.A.t[1] + blake.A.buflen, len)
          IN  blake' = [blake EXCEPT !.count = @ + 1,
                                     !.s0 = blake.s1, !.x = blake.y,
                                     !.s1 = blake.A, !.y = inp,
                                     !.A = blake2s_update_bytes(blake.A, inp),
                                     !.B = blake2s_update_bytes(blake.B, inp)]
    /\ UNCHANGED mainState

\* blake2s_final(&hash, out) on both
HashFinal ==
    /\ blake.phase = "absorb"
    /\ LET a == blake2s_final_bytes(blake.A)
           b == blake2s_final_bytes(blake.B)
       IN  blake' = [blake EXCEPT !.phase = "final", !.A = a.state, !.B = b.state,
                                  !.outA = a.out, !.outB = b.out]
    /\ UNCHANGED mainState

NextHash == HashInit \/ HashUpdate \/ HashFinal

SpecHash == InitHash /\ [][NextHash]_vars

\* ---- the hash counter over long inputs -------------------------------------
\* how many blocks before a wrap of t[0] the counter starts, the most bytes of
\* an update, and the most updates
MaxBack == 3
MaxInlen == 140
MaxUpdates == 2

\* the counters k blocks short of a wrap of t[0], with t[1] one of 0,
\* 0x0000FFFF, 0xFFFF0000 and 0xFFFFFFFF: among them those short of 2^32, of
\* 2^48 and of 2^64 bytes
CounterStarts ==
    {<<U32(Half - 1, Half - BLAKE2S_BLOCK_LEN * k), U32(hi1, lo1)>> :
        k \in 1..MaxBack, hi1 \in {0, Half - 1}, lo1 \in {0, Half - 1}}

\* a hash just initialised (blake2s_init_param: t = 0, buflen = 0), or one that
\* has absorbed so many bytes that its counter is in CounterStarts, with the
\* bytes not yet compressed in its buffer
InitCount ==
    /\ dirExists = FALSE
    /\ dir = [n \in Names |-> NoFile]
    /\ InitProcs
    /\ twin = NoTwin
    /\ \E t \in {<<U32(0, 0), U32(0, 0)>>} \cup CounterStarts :
       \E level \in {0, 1, BLAKE2S_BLOCK_LEN} :
          /\ (level = 0) = (t = <<U32(0, 0), U32(0, 0)>>)
          /\ blake = [phase |-> "count", updates |-> 0, start |-> Value64(t),
                      c |-> [t |-> t, buflen |-> level, blocks |-> 0],
                      absorbed |-> Plus64(Value64(t), level)]

\* blake2s_update(&hash, inp, inlen), of any length to MaxInlen
CountUpdate ==
    /\ blake.phase = "count"
    /\ blake.updates < MaxUpdates
    /\ \E inlen \in 0..MaxInlen :
          blake' = [blake EXCEPT !.updates = @ + 1,
                                 !.c = blake2s_update_counter(@, inlen),
                                 !.absorbed = Plus64(@, inlen)]
    /\ UNCHANGED mainState

\* blake2s_final(&hash, out)
CountFinal ==
    /\ blake.phase = "count"
    /\ blake' = [blake EXCEPT !.phase = "counted", !.c = blake2s_final_counter(@)]
    /\ UNCHANGED mainState

NextCount == CountUpdate \/ CountFinal

SpecCount == InitCount /\ [][NextCount]_vars




\* ---- properties ---------------------------------------------------------

\* C1: At most one invocation at a time is between taking the lock on the seed
\* directory and releasing it: a process that is anywhere from the first
\* consumption to the label out, having taken the lock, holds it, so no two
\* are; every step that opens, reads, removes, creates, writes or renames a
\* seed file is taken by the holder of the lock; and a process gives the lock
\* up only in the step that ends it.
C1_MutualExclusion ==
    /\ [](\A p \in Procs :
             (pc[p] \in UnderLock \/ (pc[p] = "out" /\ "consume_nc" \in attempted[p]))
                 => lock = p)
    /\ [](Cardinality({p \in Procs : pc[p] \in UnderLock}) <= 1)
    /\ [][\A p \in Procs :
             /\ (pc'[p] # pc[p] /\ (dir' # dir \/ sf_fd' # sf_fd \/ fd' # fd))
                    => lock = p
             /\ (lock = p /\ lock' # p) => (pc[p] = "out" /\ pc'[p] = "done")]_vars

\* process 1 is writing the new seed under the lock while process 2 waits in flock
C1_Witness ==
    /\ lock = 1
    /\ pc[1] = "write_new"
    /\ pc[2] = "flock"
    /\ dfd[2]

\* C2: The bytes of a given seed file are submitted to the kernel by at most
\* one invocation: no file, in the directory or open in a process, has been
\* sent by two processes, and no two running processes have requests with the
\* bytes of the same file.
C2_SentOnce ==
    /\ \A n \in Names : Cardinality(dir[n].sent) <= 1
    /\ \A p \in Procs : Cardinality(sf_fd[p].file.sent) <= 1
    /\ \A r1, r2 \in kernel : r1.id = r2.id => r1.p = r2.p

\* process 2 has submitted the seed process 1 wrote, while the old seed.credit
\* is gone too
C2_Witness ==
    /\ \E r \in kernel : r.p = 2 /\ r.id = 1 /\ r.buf_size >= BLAKE2S_HASH_LEN
    /\ pc[1] = "done"
    /\ \A n \in Names : dir[n].id >= 0

\* C3: seed_from_file_if_exists absorbs and submits the bytes of a file only
\* after unlinkat and fsync of the directory both succeeded, the file then
\* being gone; when either failed and bytes were read, the call makes no
\* request for the file, absorbs none of its bytes and returns failure.
C3_RemoveBeforeUse ==
    \A p \in Procs :
        LET Submitted == \E r \in kernel : r.p = p /\ r.name = filename[p]
            Absorbed == \E i \in 1..Len(hash[p].in) : hash[p].in[i] = FBytes(seed[p])
            InCall == pc[p] \in {"sf_open", "sf_read", "sf_unlink", "sf_fsync",
                                 "sf_update", "sf_seed", "sf_out", "sf_ret"}
        IN  /\ (InCall /\ (Submitted \/ Absorbed \/ pc[p] \in {"sf_update", "sf_seed"}))
                   => (removed[p] = "synced" /\ ~dir[filename[p]].exists)
            /\ (pc[p] \in {"sf_out", "sf_ret"} /\ seed_len[p] # 0 /\ removed[p] # "synced")
                   => /\ ~Submitted
                      /\ ~Absorbed
                      /\ ret[p] < 0
                      /\ pc[p] = "sf_ret" => sf_result[p] = -1

\* a call that read 64 bytes and unlinked the file has returned failure because
\* fsync failed
C3_Witness ==
    \E p \in Procs :
        /\ pc[p] = "sf_ret"
        /\ seed_len[p] = 64
        /\ removed[p] = "unlinked"
        /\ sf_result[p] = -1
        /\ kernel = {}

\* C4: A consumption of a name whose last event was a consumption that used
\* its bytes (no file was created under the name since) finds no file: it
\* returns success in its first step, absorbing nothing and requesting nothing.
C4_SecondConsume ==
    [][\A p \in Procs :
          (pc[p] = "sf_open" /\ delivered[filename[p]] /\ pc'[p] # pc[p])
              => /\ ~dir[filename[p]].exists
                 /\ pc'[p] = "sf_ret"
                 /\ sf_result'[p] = 0
                 /\ hash' = hash
                 /\ kernel' = kernel
                 /\ dir' = dir]_vars

\* process 2 has consumed seed.credit, used by process 1 and not written since,
\* and got success without a request of its own
C4_Witness ==
    /\ pc[2] = "sf_ret"
    /\ filename[2] = CREDITABLE_SEED
    /\ delivered[CREDITABLE_SEED]
    /\ removed[2] = "no"
    /\ sf_result[2] = 0
    /\ ~\E r \in kernel : r.p = 2 /\ r.name = CREDITABLE_SEED

\* C5: When SEEDRNG_SKIP_CREDIT asks to skip crediting, no request of the run
\* carries a nonzero entropy_count.
C5_SkipCredit ==
    \A r \in kernel : skip_credit(env[r.p]) => r.entropy_count = 0

\* with the variable set to 1, the 64 bytes of seed.credit were submitted
\* with entropy_count 0
C5_Witness ==
    \E r \in kernel :
        /\ skip_credit(env[r.p])
        /\ r.name = CREDITABLE_SEED
        /\ r.buf_size = 64
        /\ r.entropy_count = 0

\* C6: What was read of seed.no-credit is submitted with entropy_count 0;
\* what was read of seed.credit is submitted with entropy_count 8 * length
\* exactly when skipping is not asked for, and else with 0; and a call that
\* read bytes and returns success has submitted them.
C6_CreditByFile ==
    /\ \A r \in kernel :
          /\ \E l \in OldSeedLens :
                l # 0 /\ r.buf = read_full(OldFile(r.name, l), MAX_SEED_LEN)
          /\ r.name = NON_CREDITABLE_SEED => r.entropy_count = 0
          /\ r.name = CREDITABLE_SEED =>
                /\ r.entropy_count = 8 * r.buf_size <=> ~skip_credit(env[r.p])
                /\ skip_credit(env[r.p]) => r.entropy_count = 0
    /\ \A p \in Procs :
          (pc[p] = "sf_ret" /\ seed_len[p] # 0 /\ sf_result[p] = 0)
              => \E r \in kernel : r.p = p /\ r.name = filename[p] /\ r.buf = seed[p]

\* both files were submitted: seed.no-credit with 0, the 64 bytes of
\* seed.credit with 512
C6_Witness ==
    /\ \E r \in kernel : r.name = NON_CREDITABLE_SEED /\ r.entropy_count = 0
    /\ \E r \in kernel :
          r.name = CREDITABLE_SEED /\ r.buf_size = 64 /\ r.entropy_count = 512

\* C7: Every request has a buffer of 1 to 512 bytes, of the length it states,
\* and an entropy_count of 0 or of 8 times that length.
C7_RequestShape ==
    \A r \in kernel :
        /\ r.buf_size \in 1..MAX_SEED_LEN
        /\ BytesLen(r.buf) = r.buf_size
        /\ r.entropy_count \in {0, 8 * r.buf_size}

\* a seed.credit of 600 bytes was submitted as 512 bytes with entropy_count 4096
C7_Witness ==
    \E r \in kernel :
        /\ r.name = CREDITABLE_SEED
        /\ r.buf_size = MAX_SEED_LEN
        /\ r.entropy_count = 4096

\* C8: When main() returns, each of the bits 1 to 6 of the status is set if
\* and only if its step failed in the run (consumption of seed.no-credit, of
\* seed.credit, generation of the new seed, opening it for writing, writing or
\* syncing it, promoting it), so the status is 0 if and only if no step
\* failed; and a failure of the privilege test, of the creation of the
\* directory or of taking the lock gives the status 1 exactly.
C8_ExitStatus ==
    \A p \in Procs :
        pc[p] \in {"out", "return"} =>
            LET StepBit == [consume_nc |-> 1, consume_c |-> 2, generate |-> 3,
                            open |-> 4, write |-> 5, promote |-> 6]
                Fatal == {"privilege", "mkdir", "lock"}
            IN  /\ program_ret[p] \in 0..127
                /\ \A st \in DOMAIN StepBit :
                      Bit(program_ret[p], StepBit[st]) <=> st \in failed[p]
                /\ Bit(program_ret[p], 0) <=> failed[p] \cap Fatal # {}
                /\ program_ret[p] = 0 <=> failed[p] = {}
                /\ failed[p] \cap Fatal # {} => program_ret[p] = 1

\* a run whose two consumptions, generation and promotion failed ends with
\* status 2 + 4 + 8 + 64
C8_Witness ==
    \E p \in Procs :
        /\ pc[p] = "out"
        /\ failed[p] = {"consume_nc", "consume_c", "generate", "promote"}
        /\ program_ret[p] = 78

\* C9: Whatever failed of the two consumptions and of the generation, a run
\* that took the lock attempts to create seed.no-credit and, once it is
\* created, to write to it a new seed of new_seed_len >= 32 bytes.
C9_AlwaysWrites ==
    \A p \in Procs :
        (pc[p] = "out" /\ lock = p) =>
            /\ {"consume_nc", "consume_c", "generate", "open"} \subseteq attempted[p]
            /\ "open" \notin failed[p] =>
                  /\ "write" \in attempted[p]
                  /\ new_seed_len[p] >= MIN_SEED_LEN
                  /\ BytesLen(new_seed[p]) = new_seed_len[p]

\* both consumptions and the generation failed, and the run has written and
\* synced a new seed of 32 bytes
C9_Witness ==
    \E p \in Procs :
        /\ pc[p] = "out"
        /\ lock = p
        /\ {"consume_nc", "consume_c", "generate"} \subseteq failed[p]
        /\ "write" \in attempted[p]
        /\ "write" \notin failed[p]
        /\ \E n \in Names :
              dir[n].exists /\ dir[n].bytes = new_seed[p] /\ BytesLen(dir[n].bytes) = 32

\* C10 as stated: apart from the failures before the lock is held, no failure
\* keeps a later step from being attempted: a run that took the lock has
\* attempted both consumptions, the generation, the opening and the writing of
\* the new seed and, for a creditable new seed, its promotion.
C10_Original ==
    \A p \in Procs :
        (pc[p] = "out" /\ lock = p) =>
            /\ {"consume_nc", "consume_c", "generate", "open", "write"} \subseteq attempted[p]
            /\ new_seed_creditable[p] => "promote" \in attempted[p]

\* C10, amended: a failure of a consumption or of the generation keeps no later
\* step from being attempted; the opening of the new seed is always attempted,
\* its writing exactly when the opening succeeded, and its promotion exactly
\* when opening, writing and syncing succeeded and the new seed is creditable.
C10_Amended ==
    \A p \in Procs :
        (pc[p] = "out" /\ lock = p) =>
            /\ {"consume_nc", "consume_c", "generate", "open"} \subseteq attempted[p]
            /\ "write" \in attempted[p] <=> "open" \notin failed[p]
            /\ "promote" \in attempted[p] <=>
                  (new_seed_creditable[p] /\ failed[p] \cap {"open", "write"} = {})

\* the consumption of seed.credit failed and the run went on to promote a
\* creditable new seed
C10_Witness ==
    \E p \in Procs :
        /\ pc[p] = "out"
        /\ lock = p
        /\ "consume_c" \in failed[p]
        /\ "promote" \in attempted[p]
        /\ dir[CREDITABLE_SEED].exists
        /\ dir[CREDITABLE_SEED].id = p

\* C11: A run in which the privilege test, the creation of the directory,
\* its opening or the lock fails ends with a nonzero status, having attempted
\* no step on a seed file and made no request; and no step such a run takes,
\* before the lock or on its way out, changes the files of the directory, the
\* requests made, or a descriptor of a seed file.
C11_FatalTouchesNothing ==
    /\ [](\A p \in Procs :
             (pc[p] \in {"out", "return"}
                  /\ failed[p] \cap {"privilege", "mkdir", "lock"} # {})
                 => /\ program_ret[p] # 0
                    /\ attempted[p] = {}
                    /\ gone[p] = {}
                    /\ ~fd[p]
                    /\ ~sf_fd[p].open
                    /\ ~\E r \in kernel : r.p = p)
    /\ [][\A p \in Procs :
             (pc'[p] # pc[p]
                  /\ (pc[p] \in PreLock \/ pc[p] = "return"
                          \/ (pc[p] = "out" /\ "lock" \in failed[p])))
                 => /\ dir' = dir
                    /\ kernel' = kernel
                    /\ sf_fd' = sf_fd
                    /\ fd' = fd]_vars

\* flock failed on the opened directory, and both seed files are as they were
C11_Witness ==
    \E p \in Procs :
        /\ pc[p] = "out"
        /\ "lock" \in failed[p]
        /\ dfd[p]
        /\ program_ret[p] = 1
        /\ dir[NON_CREDITABLE_SEED] = OldFile(NON_CREDITABLE_SEED, 600)
        /\ dir[CREDITABLE_SEED] = OldFile(CREDITABLE_SEED, 64)

\* C12 as stated: when a run ends with status 0, the new seed, written and
\* synced, is the file seed.credit if it is creditable and seed.no-credit if
\* not, and the other of the two names is absent.
C12_Original ==
    \A p \in Procs :
        (pc[p] = "out" /\ lock = p /\ program_ret[p] = 0) =>
            LET n == IF new_seed_creditable[p] THEN CREDITABLE_SEED
                     ELSE NON_CREDITABLE_SEED
                o == IF new_seed_creditable[p] THEN NON_CREDITABLE_SEED
                     ELSE CREDITABLE_SEED
            IN  /\ "write" \in attempted[p]
                /\ dir[n] = File(p, new_seed[p])
                /\ BytesLen(dir[n].bytes) = new_seed_len[p]
                /\ ~dir[o].exists

\* C12, amended: when a run ends with status 0, the new seed, written and
\* synced, is the file seed.credit if it is creditable and seed.no-credit if
\* not; the other name is absent, unless the new seed is not creditable and
\* seed.credit is an empty file from before the run, which could not be
\* unlinked.
C12_Amended ==
    \A p \in Procs :
        (pc[p] = "out" /\ lock = p /\ program_ret[p] = 0) =>
            LET n == IF new_seed_creditable[p] THEN CREDITABLE_SEED
                     ELSE NON_CREDITABLE_SEED
                o == IF new_seed_creditable[p] THEN NON_CREDITABLE_SEED
                     ELSE CREDITABLE_SEED
            IN  /\ "write" \in attempted[p]
                /\ dir[n] = File(p, new_seed[p])
                /\ BytesLen(dir[n].bytes) = new_seed_len[p]
                /\ \/ ~dir[o].exists
                   \/ /\ o = CREDITABLE_SEED
                      /\ dir[o].id # p
                      /\ dir[o].bytes = <<>>

\* both old seeds were submitted and the run ended with status 0, its
\* creditable new seed of 512 bytes being seed.credit, alone
C12_Witness ==
    \E p \in Procs :
        /\ pc[p] = "out"
        /\ program_ret[p] = 0
        /\ new_seed_creditable[p]
        /\ Cardinality({r \in kernel : r.p = p}) = 2
        /\ dir[CREDITABLE_SEED] = File(p, new_seed[p])
        /\ new_seed_len[p] = MAX_SEED_LEN
        /\ ~dir[NON_CREDITABLE_SEED].exists

\* C13 as stated: a run attempts the promotion only of a new seed that was
\* delivered by read_new_seed with creditable set, never in a run whose
\* generation failed and put the failure marker in its place.
C13_PromoteOnlyGenerated ==
    \A p \in Procs :
        (pc[p] = "out" /\ "promote" \in attempted[p]) =>
            /\ new_seed_creditable[p]
            /\ "generate" \notin failed[p]

\* C14 as stated: in a run that has written a new seed file, every file of
\* before the run whose content the run unlinked, truncated or renamed over
\* had its length and the bytes read of it (its first 512) absorbed, one after
\* the other, into the hash whose digest the new seed holds.
C14_NoRegression ==
    \A p \in Procs :
        (pc[p] = "out" /\ "write" \in attempted[p] /\ "write" \notin failed[p]) =>
            \A g \in gone[p] :
                LET b == Prefix(g.bytes, MAX_SEED_LEN)
                IN  \E i \in 1..(Len(hash[p].in) - 1) :
                        /\ hash[p].in[i] = FLen(BytesLen(b))
                        /\ hash[p].in[i + 1] = FBytes(b)

\* C15: Once blake2s_final is called the hash has absorbed, in this order,
\* the prefix, the wall-clock time, the boot time, the length and bytes of
\* seed.no-credit if they were read and the file removed, the length and
\* bytes of seed.credit likewise, the length of the new seed and its bytes;
\* blake2s_final is called once, at the step after the generation, and the
\* hash absorbs nothing after it.
C15_AbsorbOrder ==
    /\ [](\A p \in Procs :
             LET Fixed == <<FBytes(seedrng_prefix),
                            FBytes(<<Chunk("realtime", p, 16)>>),
                            FBytes(<<Chunk("boottime", p, 16)>>)>>
                 Old(n) ==
                     IF \E r \in kernel : r.p = p /\ r.name = n
                     THEN {<<FLen(r.buf_size), FBytes(r.buf)>> :
                              r \in {q \in kernel : q.p = p /\ q.name = n}}
                     ELSE {<<>>} \cup
                          {<<FLen(BytesLen(b)), FBytes(b)>> :
                              b \in {read_full(OldFile(n, l), MAX_SEED_LEN) :
                                        l \in OldSeedLens \ {0}}}
                 New == {<<FLen(new_seed_len[p]), FBytes(b)>> :
                            b \in {<<Chunk("random", p, new_seed_len[p])>>,
                                   strncpy(seedrng_failure, BLAKE2S_HASH_LEN)}}
                 Final == pc[p] \in {"open_new", "write_new", "fsync_new", "rename"}
                              \/ (pc[p] = "out" /\ "open" \in attempted[p])
             IN  /\ hash[p].nfinal = IF Final THEN 1 ELSE 0
                 /\ Final => hash[p].in \in
                        {Fixed \o x \o y \o z :
                            x \in Old(NON_CREDITABLE_SEED), y \in Old(CREDITABLE_SEED),
                            z \in New})
    /\ [][\A p \in Procs :
             hash[p].nfinal = 1 => (hash'[p] = hash[p] \/ pc'[p] = "done")]_vars

\* a run that consumed both seed files has finalized a hash of nine fields
C15_Witness ==
    \E p \in Procs :
        /\ pc[p] = "out"
        /\ hash[p].nfinal = 1
        /\ Len(hash[p].in) = 9
        /\ hash[p].in[4] = FLen(MAX_SEED_LEN)
        /\ hash[p].in[6] = FLen(64)

\* C16: When the generation succeeded and the new seed was written, the file
\* holds the first new_seed_len - 32 bytes read_new_seed delivered, unchanged,
\* followed by the 32 bytes of the digest, new_seed_len bytes in all; and the
\* last field the hash absorbed before the digest was taken is all
\* new_seed_len bytes delivered.
C16_DigestTail ==
    \A p \in Procs :
        (pc[p] = "out" /\ "write" \in attempted[p] /\ "write" \notin failed[p]
             /\ "generate" \notin failed[p]) =>
            LET L == new_seed_len[p]
                A == <<Chunk("random", p, L)>>
                k == Len(hash[p].in)
            IN  /\ \E n \in Names :
                      /\ dir[n].exists
                      /\ dir[n].id = p
                      /\ dir[n].bytes = Prefix(A, L - BLAKE2S_HASH_LEN) \o Digest(p)
                      /\ BytesLen(dir[n].bytes) = L
                /\ hash[p].nfinal = 1
                /\ hash[p].in[k - 1] = FLen(L)
                /\ hash[p].in[k] = FBytes(A)

\* a new seed of 512 bytes is in the directory: 480 bytes of the random source
\* and the digest
C16_Witness ==
    \E p \in Procs, n \in Names :
        /\ pc[p] = "out"
        /\ "generate" \notin failed[p]
        /\ "write" \notin failed[p]
        /\ dir[n].exists
        /\ dir[n].bytes = <<Chunk("random", p, 480)>> \o Digest(p)

\* C17: When read_new_seed fails, bit 3 is set, the new seed is 32 bytes long,
\* the hash has absorbed after the old seeds the length 32 and the failure
\* string padded with zero bytes to 32, the opening of the new seed file is
\* attempted, and once written the file is exactly the 32 bytes of the digest.
C17_FailureMarker ==
    \A p \in Procs :
        (pc[p] = "out" /\ "generate" \in failed[p]) =>
            LET k == Len(hash[p].in)
            IN  /\ Bit(program_ret[p], 3)
                /\ new_seed_len[p] = 32
                /\ "open" \in attempted[p]
                /\ hash[p].nfinal = 1
                /\ hash[p].in[k - 1] = FLen(32)
                /\ hash[p].in[k] =
                      FBytes(<<Chunk("SeedRNG v1 No New Seed Failure", 0, 30),
                               Chunk("zero", 0, 2)>>)
                /\ new_seed[p] = Digest(p)
                /\ ("write" \in attempted[p] /\ "write" \notin failed[p]) =>
                      \E n \in Names :
                          /\ dir[n].exists
                          /\ dir[n].id = p
                          /\ dir[n].bytes = Digest(p)
                          /\ BytesLen(dir[n].bytes) = 32

\* with a pool of 8192 bits the generation failed, and seed.no-credit is the
\* digest of a hash that absorbed both old seeds
C17_Witness ==
    \E p \in Procs :
        /\ pc[p] = "out"
        /\ program_ret[p] = 8
        /\ Len(hash[p].in) = 9
        /\ ~new_seed_creditable[p]
        /\ dir[NON_CREDITABLE_SEED] = File(p, Digest(p))

\* C18: The length determine_optimal_seed_len() gives is the number of bytes
\* that hold the pool's bits, the least k with 8 * k >= bits, raised to 32
\* and lowered to 512, and it is 32 when the pool size cannot be read; it is
\* always within 32..512.  A pool of 128 bits gives 32, of 2048 bits 256, of
\* 8192 bits 512.
C18_SeedLen ==
    \A p \in Procs :
        pc[p] = "read_new_seed" =>
            LET bits == poolsize[p].bits
                len == new_seed_len[p]
            IN  /\ len \in 32..512
                /\ ~poolsize[p].readable => len = 32
                /\ poolsize[p].readable =>
                      /\ bits <= 8 * 32 => len = 32
                      /\ bits > 8 * 511 => len = 512
                      /\ (bits > 8 * 32 /\ bits <= 8 * 511) =>
                            (8 * len >= bits /\ 8 * (len - 1) < bits)
                      /\ bits = 128 => len = 32
                      /\ bits = 2048 => len = 256
                      /\ bits = 8192 => len = 512

\* a pool of 2048 bits was read and the length is 256
C18_Witness ==
    \E p \in Procs :
        /\ pc[p] = "read_new_seed"
        /\ poolsize[p] = [readable |-> TRUE, bits |-> 2048]
        /\ new_seed_len[p] = 256

\* C19: When the opening of the new seed file fails bit 4 is set, and when
\* its writing or its fsync fails bit 5 is set; in both cases the run ends
\* without attempting the rename, whatever new_seed_creditable is, so bit 6
\* is clear and seed.credit is no file of this run.  After a failed opening
\* nothing is written either.
C19_NoPromoteAfterWriteFailure ==
    \A p \in Procs :
        pc[p] = "out" =>
            /\ "open" \in failed[p] =>
                  /\ Bit(program_ret[p], 4)
                  /\ "write" \notin attempted[p]
            /\ "write" \in failed[p] => Bit(program_ret[p], 5)
            /\ failed[p] \cap {"open", "write"} # {} =>
                  /\ "promote" \notin attempted[p]
                  /\ ~Bit(program_ret[p], 6)
                  /\ ~(dir[CREDITABLE_SEED].exists /\ dir[CREDITABLE_SEED].id = p)

\* a creditable new seed whose writing or fsync failed: status 32, the file is
\* still seed.no-credit
C19_Witness ==
    \E p \in Procs :
        /\ pc[p] = "out"
        /\ "write" \in failed[p]
        /\ new_seed_creditable[p]
        /\ program_ret[p] = 32
        /\ dir[NON_CREDITABLE_SEED].exists
        /\ dir[NON_CREDITABLE_SEED].id = p

\* C20: When renameat fails bit 6 is set and seed.no-credit is still in the
\* directory, holding all new_seed_len bytes of the new seed as written and
\* synced; seed.credit is not a file of this run.
C20_RenameFailure ==
    \A p \in Procs :
        (pc[p] = "out" /\ "promote" \in failed[p]) =>
            /\ Bit(program_ret[p], 6)
            /\ "write" \in attempted[p]
            /\ "write" \notin failed[p]
            /\ dir[NON_CREDITABLE_SEED] = File(p, new_seed[p])
            /\ BytesLen(dir[NON_CREDITABLE_SEED].bytes) = new_seed_len[p]
            /\ ~(dir[CREDITABLE_SEED].exists /\ dir[CREDITABLE_SEED].id = p)

\* only the rename failed: status 64, seed.no-credit holds the 512 bytes
C20_Witness ==
    \E p \in Procs :
        /\ pc[p] = "out"
        /\ program_ret[p] = 64
        /\ new_seed_creditable[p]
        /\ dir[NON_CREDITABLE_SEED] = File(p, new_seed[p])
        /\ BytesLen(new_seed[p]) = MAX_SEED_LEN

\* C21 as stated: an invocation at flock while another holds the lock stays
\* there, its steps leaving every seed file alone, and it comes to hold the
\* lock; an invocation that holds the lock comes to its end with the lock
\* given up.
C21_Original ==
    /\ [][\A p \in Procs :
             (pc[p] = "flock" /\ lock \notin {0, p}) =>
                 /\ pc'[p] = "flock" \/ (pc'[p] = "out" /\ "lock" \in failed'[p])
                 /\ pc'[p] # pc[p] => (dir' = dir /\ kernel' = kernel /\ lock' = lock)]_vars
    /\ \A p \in Procs : (pc[p] = "flock" /\ lock \notin {0, p}) ~> (lock = p)
    /\ \A p \in Procs : (lock = p) ~> (pc[p] = "done" /\ lock # p)

\* C21 amended: an invocation at flock while another holds the lock stays
\* there, its steps leaving every seed file alone, and it comes to hold the
\* lock unless its flock call returns an error, after which it is at out with
\* status 1 and no step attempted; an invocation that holds the lock comes to
\* its end with the lock given up.
C21_Amended ==
    /\ [][\A p \in Procs :
             (pc[p] = "flock" /\ lock \notin {0, p}) =>
                 /\ pc'[p] = "flock" \/ (pc'[p] = "out" /\ "lock" \in failed'[p])
                 /\ pc'[p] # pc[p] => (dir' = dir /\ kernel' = kernel /\ lock' = lock)]_vars
    /\ \A p \in Procs :
          (pc[p] = "flock" /\ lock \notin {0, p}) ~>
              (lock = p \/ (pc[p] = "out" /\ "lock" \in failed[p]
                              /\ program_ret[p] = 1 /\ attempted[p] = {}))
    /\ \A p \in Procs : (lock = p) ~> (pc[p] = "done" /\ lock # p)

\* invocation 2 is at flock while invocation 1, which holds the lock, writes
\* its new seed
C21_Witness ==
    /\ pc[2] = "flock"
    /\ dfd[2]
    /\ lock = 1
    /\ pc[1] = "write_new"

\* C22: The credit passed for seed.credit is withheld exactly when
\* SEEDRNG_SKIP_CREDIT is set and its value is "1", or "true", "yes" or "y"
\* with each letter in either case; unset, or with any other value such as
\* "0", "" or "on", the credit is given.
C22_SkipCreditValues ==
    \A p \in Procs :
        (pc[p] = "sf_open" /\ filename[p] = CREDITABLE_SEED) =>
            LET Active ==
                    {<<"1">>}
                    \cup {<<a, b, c, d>> : a \in {"t", "T"}, b \in {"r", "R"},
                                           c \in {"u", "U"}, d \in {"e", "E"}}
                    \cup {<<a, b, c>> : a \in {"y", "Y"}, b \in {"e", "E"},
                                        c \in {"s", "S"}}
                    \cup {<<"y">>, <<"Y">>}
            IN  /\ credit[p] = ~(env[p].set /\ env[p].val \in Active)
                /\ (~env[p].set \/ env[p].val \in {<<"0">>, <<>>, <<"o", "n">>})
                      => credit[p]

\* the value "tRuE" withholds the credit
C22_Witness ==
    \E p \in Procs :
        /\ pc[p] = "sf_open"
        /\ filename[p] = CREDITABLE_SEED
        /\ env[p] = EnvStr(<<"t", "R", "u", "E">>)
        /\ ~credit[p]

\* C23: Two hash states that lay in memory holding different things, were
\* each initialised and then absorbed the same bytes in the same updates, are
\* equal in every field the functions read, and blake2s_final gives the
\* same 32 bytes for both; the digest was made of nothing but the parameter of
\* the initialisation and the bytes absorbed, none of what memory held before.
C23_Deterministic ==
    /\ blake.phase \in {"absorb", "final"} =>
          /\ blake.A.h = blake.B.h
          /\ blake.A.t = blake.B.t
          /\ blake.A.f = blake.B.f
          /\ blake.A.buflen = blake.B.buflen
          /\ SubSeq(blake.A.buf, 1, blake.A.buflen) = SubSeq(blake.B.buf, 1, blake.B.buflen)
    /\ blake.phase = "final" =>
          /\ blake.outA = blake.outB
          /\ blake.outA.outlen = BLAKE2S_HASH_LEN
          /\ blake.outA.h.param = 16842752 + BLAKE2S_HASH_LEN
          /\ \A i \in 1..Len(blake.outA.h.blocks) :
                LET c == blake.outA.h.blocks[i]
                IN  /\ \A k \in 1..BLAKE2S_BLOCK_LEN : c.m[k] >= 0
                    /\ c.t[1] >= 0 /\ c.t[2] = 0
                    /\ c.f = IF i = Len(blake.outA.h.blocks) THEN <<-1, 0>> ELSE <<0, 0>>

\* both have absorbed the 57 fixed bytes, 8 bytes and 192 bytes more, four
\* blocks and the last of 1 byte, and the digests are taken
C23_Witness ==
    /\ blake.phase = "final"
    /\ Len(blake.x) = 8
    /\ Len(blake.y) = 192
    /\ Len(blake.outA.h.blocks) = 5
    /\ blake.outB.h.blocks[5].t = <<257, 0>>

\* C25: When read_new_seed has returned, is_creditable is true exactly when
\* getrandom(GRND_NONBLOCK) delivered all len bytes, or it failed with ENOSYS
\* and poll reported /dev/random readable; it is false when
\* getrandom(GRND_INSECURE) delivered the bytes, when /dev/urandom was read
\* after another failure than ENOSYS or after a poll that found nothing ready,
\* and when /dev/random could not be opened.
C25_Creditable ==
    \A p \in Procs :
        calls[p] # NoCalls =>
            LET c == calls[p]
            IN  /\ pc[p] = "finalize"
                /\ new_seed_creditable[p] =
                      (c.getrandom_nonblock = "full"
                         \/ (c.getrandom_nonblock = "ENOSYS" /\ c.poll = "ready"))
                /\ c.getrandom_insecure = "full" => ~new_seed_creditable[p]
                /\ (c.getrandom_nonblock = "error" /\ c.open_urandom # "none")
                      => ~new_seed_creditable[p]
                /\ c.poll = "not ready" => ~new_seed_creditable[p]
                /\ c.open_random = "fail" => ~new_seed_creditable[p]

\* getrandom is not there, /dev/random is readable and /dev/urandom gave the
\* bytes: the new seed is creditable
C25_Witness ==
    \E p \in Procs :
        /\ pc[p] = "finalize"
        /\ calls[p].getrandom_nonblock = "ENOSYS"
        /\ calls[p].poll = "ready"
        /\ calls[p].read_urandom = "full"
        /\ new_seed_creditable[p]
        /\ "generate" \notin failed[p]

\* C26 as stated: when read_new_seed has failed, /dev/urandom was the last
\* thing tried: its opening was attempted, and it failed or the read did not
\* deliver len bytes.
C26_FailureOnlyAfterFallback ==
    \A p \in Procs :
        (calls[p] # NoCalls /\ "generate" \in failed[p]) =>
            /\ calls[p].open_urandom # "none"
            /\ \/ calls[p].open_urandom = "fail"
               \/ calls[p].read_urandom \in {"short", "error"}

\* C27: Two updates, with the bytes x and then the bytes y, leave the same
\* chaining value, counter, flags, buffer level and buffered bytes as one
\* update with x followed by y from the same state, and blake2s_final gives
\* the same digest after either; an update of no bytes leaves the state as it
\* was, byte for byte.
C27_SplitInvariance ==
    (blake.phase \in {"absorb", "final"} /\ blake.count >= 1) =>
        LET w == blake2s_update_bytes(blake.s0, blake.x \o blake.y)
        IN  /\ blake.phase = "absorb" =>
                  /\ w.h = blake.A.h
                  /\ w.t = blake.A.t
                  /\ w.f = blake.A.f
                  /\ w.buflen = blake.A.buflen
                  /\ SubSeq(w.buf, 1, w.buflen) = SubSeq(blake.A.buf, 1, blake.A.buflen)
                  /\ Len(blake.y) = 0 => blake.A = blake.s1
            /\ blake.phase = "final" => blake.outA = blake2s_final_bytes(w).out

\* from a buffer of 57 bytes, 70 bytes and then 130 bytes were absorbed: four
\* blocks are compressed, 1 byte is buffered, and the bytes of the buffer
\* beyond it are not those a single update of the 200 bytes leaves
C27_Witness ==
    /\ blake.phase = "absorb"
    /\ blake.count = 2
    /\ blake.s0.buflen = 57
    /\ Len(blake.x) = 70
    /\ Len(blake.y) = 130
    /\ Len(blake.A.h.blocks) = 4
    /\ blake.A.buflen = 1
    /\ blake2s_update_bytes(blake.s0, blake.x \o blake.y).buf # blake.A.buf

\* C28: In the step in which seed_from_file_if_exists absorbs the bytes of a
\* file into the hash, and in the step in which it submits them to the
\* kernel, no file of that name is in the directory, before the step and
\* after it; what is absorbed, after its length, and what is submitted are the
\* first 512 bytes of the file that was opened, or all of it if it is shorter;
\* the call absorbs nothing in any other of its steps.
C28_NotLeftBehind ==
    [][\A p \in Procs :
          LET read == Prefix(sf_fd[p].file.bytes, MAX_SEED_LEN)
          IN  /\ (pc[p] = "sf_update" /\ pc'[p] # pc[p]) =>
                    /\ ~dir[filename[p]].exists
                    /\ ~dir'[filename[p]].exists
                    /\ BytesLen(read) \in 1..MAX_SEED_LEN
                    /\ hash'[p].in = hash[p].in \o <<FLen(BytesLen(read)), FBytes(read)>>
              /\ (pc[p] = "sf_seed" /\ pc'[p] # pc[p] /\ kernel' # kernel) =>
                    /\ ~dir[filename[p]].exists
                    /\ ~dir'[filename[p]].exists
                    /\ \E r \in kernel' \ kernel :
                          /\ kernel' = kernel \cup {r}
                          /\ r.p = p
                          /\ r.name = filename[p]
                          /\ r.buf = read
                          /\ r.buf_size = BytesLen(read)
                          /\ r.buf_size <= MAX_SEED_LEN
                          /\ hash[p].in[Len(hash[p].in)] = FBytes(r.buf)
              /\ (hash'[p] # hash[p] /\ pc[p] \in UnderLock /\ pc[p] \notin {"sf_update", "finalize"})
                    => pc'[p] = "done"]_vars

\* the 600 bytes of seed.no-credit were opened; its first 512 are absorbed and
\* about to be submitted, and no seed.no-credit is in the directory
C28_Witness ==
    \E p \in Procs :
        /\ pc[p] = "sf_seed"
        /\ filename[p] = NON_CREDITABLE_SEED
        /\ BytesLen(sf_fd[p].file.bytes) = 600
        /\ seed_len[p] = MAX_SEED_LEN
        /\ hash[p].in[Len(hash[p].in)] = FBytes(seed[p])
        /\ ~dir[NON_CREDITABLE_SEED].exists

\* C29 as stated: every seed file a run has written and left in the
\* directory, the run being at out or over, has a length within 32..512,
\* whatever failed in the run.
C29_LengthBound ==
    \A n \in Names :
        (dir[n].exists /\ dir[n].id \in Procs /\ pc[dir[n].id] \in {"out", "done"})
            => BytesLen(dir[n].bytes) \in MIN_SEED_LEN..MAX_SEED_LEN

\* C30: A call that has read a file of no bytes records no error when
\* unlinkat or fsync fails, goes to out without absorbing or submitting
\* anything, and returns 0.
C30_EmptySeed ==
    /\ [](\A p \in Procs :
             (pc[p] = "sf_out" /\ sf_fd[p].open /\ sf_fd[p].file.bytes = <<>> /\ ret[p] = 0) =>
                 /\ seed_len[p] = 0
                 /\ ~\E r \in kernel : r.p = p /\ r.name = filename[p]
                 /\ ~\E i \in 1..Len(hash[p].in) : hash[p].in[i] = FLen(0)
                 /\ ConsumeStep(filename[p]) \notin failed[p])
    /\ [][\A p \in Procs :
             /\ (pc[p] \in {"sf_unlink", "sf_fsync"} /\ seed_len[p] = 0 /\ pc'[p] # pc[p]) =>
                   /\ pc'[p] = IF pc[p] = "sf_unlink" /\ removed'[p] = "unlinked"
                               THEN "sf_fsync" ELSE "sf_out"
                   /\ ret'[p] = 0
                   /\ failed' = failed
                   /\ hash' = hash
                   /\ kernel' = kernel
             /\ (pc[p] = "sf_out" /\ sf_fd[p].open /\ sf_fd[p].file.bytes = <<>>
                     /\ ret[p] = 0 /\ pc'[p] # pc[p]) =>
                   /\ pc'[p] = "sf_ret"
                   /\ sf_result'[p] = 0
                   /\ hash' = hash
                   /\ kernel' = kernel]_vars

\* the call on an empty seed.credit has returned 0 although unlinkat failed:
\* the file is still there
C30_Witness ==
    \E p \in Procs :
        /\ pc[p] = "sf_ret"
        /\ filename[p] = CREDITABLE_SEED
        /\ sf_result[p] = 0
        /\ removed[p] = "no"
        /\ dir[CREDITABLE_SEED] = OldFile(CREDITABLE_SEED, 0)
        /\ program_ret[p] = 0

\* C31: seed.credit comes to hold a file only by the rename of a
\* seed.no-credit that the renaming run created, wrote in full and fsynced
\* without error; a seed.credit created by a run holds, at every step and
\* whichever runs are killed, a whole new seed: 32..512 bytes ending in the
\* run's digest, and while the run lives the new_seed_len bytes of its new_seed.
C31_CreditComplete ==
    /\ [](dir[CREDITABLE_SEED].exists /\ dir[CREDITABLE_SEED].id \in Procs =>
             LET f == dir[CREDITABLE_SEED]
             IN  /\ BytesLen(f.bytes) \in MIN_SEED_LEN..MAX_SEED_LEN
                 /\ f.bytes[Len(f.bytes)] = Digest(f.id)[1]
                 /\ pc[f.id] \notin {"done", "killed"} =>
                       f.bytes = Prefix(new_seed[f.id], new_seed_len[f.id]))
    /\ [][(dir'[CREDITABLE_SEED].exists /\ dir'[CREDITABLE_SEED] # dir[CREDITABLE_SEED]) =>
             \E p \in Procs :
                 /\ pc[p] = "rename"
                 /\ pc'[p] = "out"
                 /\ new_seed_creditable[p]
                 /\ "write" \in attempted[p] \ failed[p]
                 /\ dir[NON_CREDITABLE_SEED] = File(p, Prefix(new_seed[p], new_seed_len[p]))
                 /\ dir'[CREDITABLE_SEED] = dir[NON_CREDITABLE_SEED]
                 /\ ~dir'[NON_CREDITABLE_SEED].exists]_vars

\* the first run was killed after its rename; the second has read the
\* seed.credit it left, which is a whole seed
C31_Witness ==
    /\ pc[1] = "killed"
    /\ dir[CREDITABLE_SEED].exists
    /\ dir[CREDITABLE_SEED].id = 1
    /\ pc[2] = "sf_unlink"
    /\ filename[2] = CREDITABLE_SEED
    /\ seed_len[2] = BytesLen(dir[CREDITABLE_SEED].bytes)
    /\ seed_len[2] >= MIN_SEED_LEN

\* C32: Of two runs on the same inputs, each can follow every step of
\* the other, whatever SEEDRNG_SKIP_CREDIT is in either, so that they differ in
\* nothing but the value of the variable, the credit argument and the
\* entropy_count of their requests: the same fields absorbed, the same new seed
\* written, the same renames attempted and made.
C32_OverrideFrame ==
    (twin.turn = "follow" /\ ~InSync) => ENABLED Follow

\* both runs are at out, one with the override and one without; their
\* requests for seed.credit differ in entropy_count, and the new seed is
\* seed.credit in both
C32_Witness ==
    /\ twin.turn = "follow"
    /\ InSync
    /\ pc[1] = "out"
    /\ skip_credit(env[1])
    /\ ~skip_credit(twin.st.env[1])
    /\ \E r \in kernel : r.name = CREDITABLE_SEED /\ r.entropy_count = 0
    /\ \E r \in twin.st.kernel : r.name = CREDITABLE_SEED /\ r.entropy_count > 0
    /\ dir[CREDITABLE_SEED] = File(1, Prefix(new_seed[1], new_seed_len[1]))
    /\ hash[1] = twin.st.hash[1]

\* C33: After the updates the buffer level is within 0..64, and at least 1
\* after an update of one byte or more; the buffer holds the last bytes
\* absorbed, and no block compressed by an update has the last-block flag or
\* holds the last byte absorbed. blake2s_final compresses one block more: the
\* buffered bytes followed by zeros, with the last-block flag, and it is the
\* only block with the flag and the one that holds the last byte absorbed.
C33_LastBlockKept ==
    LET n == 57 + Len(blake.x) + Len(blake.y)
    IN  /\ blake.phase = "absorb" =>
              LET a == blake.A
              IN  /\ a.buflen \in 0..BLAKE2S_BLOCK_LEN
                  /\ a.buflen >= 1
                  /\ Len(blake.y) > 0 => blake2s_update_bytes(blake.s1, blake.y).buflen >= 1
                  /\ a.t[1] + a.buflen = n
                  /\ \A i \in 1..a.buflen : a.buf[i] = n - a.buflen + i
                  /\ a.f = <<0, 0>>
                  /\ \A i \in 1..Len(a.h.blocks) :
                        /\ a.h.blocks[i].f = <<0, 0>>
                        /\ \A k \in 1..BLAKE2S_BLOCK_LEN : a.h.blocks[i].m[k] \in 1..(n - 1)
                  /\ Len(a.h.blocks) = DIV_ROUND_UP(n, BLAKE2S_BLOCK_LEN) - 1
        /\ blake.phase = "final" =>
              LET b == blake.outA.h.blocks
                  last == b[Len(b)]
                  rest == n - BLAKE2S_BLOCK_LEN * (Len(b) - 1)
              IN  /\ Len(b) = DIV_ROUND_UP(n, BLAKE2S_BLOCK_LEN)
                  /\ rest \in 1..BLAKE2S_BLOCK_LEN
                  /\ last.f = <<-1, 0>>
                  /\ last.t = <<n, 0>>
                  /\ \A k \in 1..BLAKE2S_BLOCK_LEN :
                        last.m[k] = IF k <= rest THEN n - rest + k ELSE 0
                  /\ \A i \in 1..(Len(b) - 1) :
                        /\ b[i].f = <<0, 0>>
                        /\ \A k \in 1..BLAKE2S_BLOCK_LEN : b[i].m[k] \in 1..(n - 1)

\* 256 bytes were absorbed, four blocks exactly: the updates compressed three
\* and left the fourth in the buffer, which blake2s_final compressed, full and
\* flagged, without padding
C33_Witness ==
    /\ blake.phase = "final"
    /\ Len(blake.x) + Len(blake.y) = 199
    /\ Len(blake.y) = 64
    /\ Len(blake.outA.h.blocks) = 4
    /\ blake.outA.h.blocks[3].f = <<0, 0>>
    /\ blake.outA.h.blocks[4].f = <<-1, 0>>
    /\ blake.outA.h.blocks[4].m[BLAKE2S_BLOCK_LEN] = 256

\* C34: The counter, read as the 64-bit number t[1] * 2^32 + t[0], is the
\* number of bytes compressed, modulo 2^64, whenever an update or
\* blake2s_final has returned: what the hash had compressed when it was taken
\* up plus 64 for each block compressed since, the buffered bytes making up the
\* difference to the bytes absorbed; after blake2s_final it is the number of
\* bytes absorbed. Below 2^16 the counter is what blake2s_increment_counter
\* gives on numbers.
C34_Counter ==
    blake.phase \in {"count", "counted"} =>
        LET c == blake.c
        IN  /\ blake.phase = "count" =>
                  /\ Value64(c.t) = Plus64(blake.start, BLAKE2S_BLOCK_LEN * c.blocks)
                  /\ Plus64(Value64(c.t), c.buflen) = blake.absorbed
            /\ blake.phase = "counted" => Value64(c.t) = blake.absorbed
            /\ (c.t[1].hi = 0 /\ c.t[2] = U32(0, 0) /\ c.t[1].lo + BLAKE2S_BLOCK_LEN < Half) =>
                  blake2s_increment_counter([t |-> <<c.t[1].lo, 0>>], BLAKE2S_BLOCK_LEN).t
                      = LET u == blake2s_increment_counter_u32(c.t, BLAKE2S_BLOCK_LEN)
                        IN  <<u[1].lo, u[2].lo>>

\* a hash 64 bytes short of 2^48 compressed, its buffer full, absorbed 140
\* bytes and was finalised: three blocks were compressed and then the last 12
\* bytes, t[0] has wrapped to 140 and the carry has gone through both halves
\* of t[1], which is 0x00010000
C34_Witness ==
    /\ blake.phase = "counted"
    /\ blake.start = <<Half - BLAKE2S_BLOCK_LEN, Half - 1, Half - 1, 0>>
    /\ blake.c.blocks = 3
    /\ blake.c.buflen = 12
    /\ blake.c.t = <<U32(0, 140), U32(1, 0)>>

====
